---- MODULE Spec2Model ----
(***************************************************************************)
(* Model of the RBAC authorization middleware (package router) and of the  *)
(* parts of the outbound HTTP client (package http) it relies on.          *)
(*                                                                         *)
(* One inbound request is followed from the entry of the handler returned  *)
(* by RBAC.Middleware to its return.  Four goroutines take part: the       *)
(* handler itself, the two enrichment goroutines started by                *)
(* getBusinessLines / getBusinessUnits and the error collector.  The two   *)
(* channels are unbuffered, so a send and its receive are one step.        *)
(*                                                                         *)
(* Strings that the code takes apart are sequences: an Authorization       *)
(* header is a sequence of atoms (a word or one space), a reference code   *)
(* is a sequence of characters.                                            *)
(***************************************************************************)
EXTENDS Integers, Sequences, FiniteSets, TLC

\* ------------------------------------------------------------------ bounds
MaxHeaderLen == 3
MaxItems == 2

\* ------------------------------------------------------- program constants
StatusOK == 200
StatusUnauthorized == 401
StatusInternalServerError == 500
StatusBadGateway == 502

UnauthorizedMSG == "The request is not authorized"
ErrNoToken == "no token"
ErrUnsupportedAuthentication == "unsupported authentication"

\* ------------------------------------------------------------- input sets
\* Atoms an Authorization header value is made of: words without a space,
\* and the space itself.
Space == " "
HeaderAtoms == {"Bearer", "Basic", Space}

RECURSIVE SeqsUpTo(_, _)
SeqsUpTo(S, n) ==
    IF n = 0 THEN {<<>>}
    ELSE LET shorter == SeqsUpTo(S, n - 1)
         IN  shorter \cup {Append(s, x) : s \in {t \in shorter : Len(t) = n - 1}, x \in S}

Headers == SeqsUpTo(HeaderAtoms, MaxHeaderLen)

\* Status codes an upstream answers with, on both sides of every boundary
\* the middleware tests (200, 401, [500,600)).
StatusCodes == {200, 401, 499, 500, 599, 600}

\* Error texts.
TransportErrs == {"connection refused"}
JsonErr == "invalid character"
AtoiErr == "strconv.Atoi: invalid syntax"
Msgs == {"bad token"}

\* Rows of a reference-data response; a code is a string of characters.
RefItems ==
    { [code |-> <<"1">>,           name |-> "East"],
      [code |-> <<"4", "2">>,      name |-> "Unit42"],
      [code |-> <<"a", "b", "c">>, name |-> "West"] }

\* The refData arrays of the bodies: up to MaxItems rows, no row twice.
RefLists ==
    {l \in SeqsUpTo(RefItems, MaxItems) : \A i, j \in 1..Len(l) : l[i] = l[j] => i = j}

\* ------------------------------------------------------------------- types
NoAuthentication == [Type |-> <<>>, Credenteials |-> <<>>]

\* User{}: the zero value.
ZeroUser ==
    [Authentication |-> NoAuthentication, Info |-> <<>>, ExpTime |-> 0,
     Roles |-> <<>>, BusinessLines |-> <<>>, BusinessUnits |-> <<>>]

\* What a login body can carry for the serialized fields of User.
LoginUsers == { [Info |-> <<"jdoe">>, ExpTime |-> 99, Roles |-> <<"admin">>] }

\* A response body.  valid = it is JSON; the other fields are the JSON
\* members the decoders of this package look at (absent members are the
\* zero value of their type, as encoding/json leaves them).
JsonBody(error, message, u, refData) ==
    [valid |-> TRUE, error |-> error, message |-> message,
     userInfo |-> u.Info, expTime |-> u.ExpTime, chpRoles |-> u.Roles,
     refData |-> refData]

BadBody == [JsonBody("", "", ZeroUser, <<>>) EXCEPT !.valid = FALSE]
ErrorBody(m) == JsonBody(m, "", ZeroUser, <<>>)
MessageBody(m) == JsonBody("", m, ZeroUser, <<>>)
UserBody(u) == JsonBody("", "", u, <<>>)
RefBody(items) == JsonBody("", "", ZeroUser, items)

LoginBodies == {BadBody} \cup {ErrorBody(m) : m \in Msgs} \cup {UserBody(u) : u \in LoginUsers}
MemberBodies == {BadBody} \cup {MessageBody(m) : m \in Msgs} \cup {RefBody(l) : l \in RefLists}

\* What one call through the client hands back: (nil, err) or (resp, nil).
Failure(e) == [failed |-> TRUE, err |-> e, StatusCode |-> 0, Body |-> BadBody]
Answer(code, body) == [failed |-> FALSE, err |-> "", StatusCode |-> code, Body |-> body]

\* What a reference endpoint's answer holds besides its rows.
Received(out) ==
    [failed |-> out.failed, err |-> out.err, StatusCode |-> out.StatusCode,
     valid |-> out.Body.valid, message |-> out.Body.message]

LoginOutcomes ==
    {Failure(e) : e \in TransportErrs} \cup {Answer(c, b) : c \in StatusCodes, b \in LoginBodies}
MemberOutcomes ==
    {Failure(e) : e \in TransportErrs} \cup {Answer(c, b) : c \in StatusCodes, b \in MemberBodies}

\* --------------------------------------------------------- pure functions
\* Faulty variant of Split: strings.Fields, which drops the empty pieces.
RECURSIVE SplitFields(_)
SplitFields(header) ==
    IF header = <<>> THEN <<>>
    ELSE IF Head(header) = Space THEN SplitFields(Tail(header))
    ELSE LET rest == SplitFields(Tail(header))
         IN  IF Len(header) > 1 /\ header[2] # Space
             THEN << <<Head(header)>> \o Head(rest) >> \o Tail(rest)
             ELSE << <<Head(header)>> >> \o rest

\* strings.Split(header, " "): the pieces between the spaces, n+1 pieces
\* for n spaces; a piece is the sequence of the atoms between two spaces.
RECURSIVE Split(_)
Split(header) ==
    IF header = <<>> THEN << <<>> >>
    ELSE LET rest == Split(Tail(header))
         IN  IF Head(header) = Space
             THEN << <<>> >> \o rest
             ELSE << <<Head(header)>> \o Head(rest) >> \o Tail(rest)

\* Faulty variant of NewAuthentication: a value of three tokens or more is
\* cut to its first two.
NewAuthenticationTruncating(header) ==
    LET split == Split(header)
    IN  IF Len(split) >= 2 THEN [Type |-> split[1], Credenteials |-> split[2]]
        ELSE [Type |-> <<>>, Credenteials |-> split[1]]

NewAuthentication(header) ==
    LET split == Split(header)
    IN  IF Len(split) = 2 THEN [Type |-> split[1], Credenteials |-> split[2]]
        ELSE IF Len(split) = 1 THEN [Type |-> <<>>, Credenteials |-> split[1]]
        ELSE NoAuthentication

\* Faulty variant of String: the scheme is left out.
StringBare(a) == a.Credenteials

\* Authentication.String
String(a) ==
    IF a.Type # <<>> THEN a.Type \o <<Space>> \o a.Credenteials
    ELSE a.Credenteials

\* Faulty variants of getAuthentication: without the test for the empty
\* header, and without the test of the scheme.
getAuthenticationNoEmptyTest(header) ==
    LET authentication == NewAuthentication(header)
    IN  IF authentication.Type = <<"Bearer">>
        THEN [authentication |-> authentication, err |-> ""]
        ELSE [authentication |-> NoAuthentication, err |-> ErrUnsupportedAuthentication]

getAuthenticationAnyScheme(header) ==
    IF header = <<>> THEN [authentication |-> NoAuthentication, err |-> ErrNoToken]
    ELSE LET authentication == NewAuthentication(header)
         IN  IF authentication.Type # <<>>
             THEN [authentication |-> authentication, err |-> ""]
             ELSE [authentication |-> NoAuthentication, err |-> ErrUnsupportedAuthentication]

\* getAuthentication: the pair (Authentication, error); err = "" is nil.
getAuthentication(header) ==
    IF header = <<>> THEN [authentication |-> NoAuthentication, err |-> ErrNoToken]
    ELSE LET authentication == NewAuthentication(header)
         IN  IF authentication.Type = <<"Bearer">>
             THEN [authentication |-> authentication, err |-> ""]
             ELSE [authentication |-> NoAuthentication, err |-> ErrUnsupportedAuthentication]

inRange(code, a, b) == a <= code /\ code < b
IsServerError(code) == inRange(code, 500, 600)

\* strconv.Atoi on a string given as its characters.
IsDigit(c) == c \in {"0", "1", "2", "3", "4", "5", "6", "7", "8", "9"}
DigitVal(c) ==
    CASE c = "0" -> 0 [] c = "1" -> 1 [] c = "2" -> 2 [] c = "3" -> 3 [] c = "4" -> 4
      [] c = "5" -> 5 [] c = "6" -> 6 [] c = "7" -> 7 [] c = "8" -> 8 [] c = "9" -> 9

RECURSIVE DigitsVal(_, _)
DigitsVal(s, n) ==
    IF s = <<>> THEN n ELSE DigitsVal(Tail(s), n * 10 + DigitVal(Head(s)))

\* Faulty variant of Atoi: the accumulator is not shifted by ten.
RECURSIVE DigitsSum(_, _)
DigitsSum(s, n) ==
    IF s = <<>> THEN n ELSE DigitsSum(Tail(s), n + DigitVal(Head(s)))

AtoiNoShift(s) ==
    LET signed == s # <<>> /\ Head(s) \in {"-", "+"}
        digits == IF signed THEN Tail(s) ELSE s
    IN  IF digits = <<>> \/ \E i \in 1..Len(digits) : ~IsDigit(digits[i])
        THEN [ok |-> FALSE, val |-> 0]
        ELSE [ok |-> TRUE,
              val |-> IF signed /\ Head(s) = "-" THEN 0 - DigitsSum(digits, 0)
                      ELSE DigitsSum(digits, 0)]

Atoi(s) ==
    LET signed == s # <<>> /\ Head(s) \in {"-", "+"}
        digits == IF signed THEN Tail(s) ELSE s
    IN  IF digits = <<>> \/ \E i \in 1..Len(digits) : ~IsDigit(digits[i])
        THEN [ok |-> FALSE, val |-> 0]
        ELSE [ok |-> TRUE,
              val |-> IF signed /\ Head(s) = "-" THEN 0 - DigitsVal(digits, 0)
                      ELSE DigitsVal(digits, 0)]

\* json.Unmarshal(resp.Body, &user): sets the serialized fields only.
DecodeUser(body, user) ==
    IF body.valid
    THEN [user EXCEPT !.Info = body.userInfo, !.ExpTime = body.expTime,
                      !.Roles = body.chpRoles]
    ELSE user

\* Faulty variant of getUser: reads the "message" member of an error body.
getUserMessageMember(authentication, out) ==
    IF out.failed THEN [user |-> ZeroUser, code |-> 0, err |-> out.err]
    ELSE IF out.StatusCode = StatusOK
    THEN IF ~out.Body.valid
         THEN [user |-> ZeroUser, code |-> out.StatusCode, err |-> JsonErr]
         ELSE [user |-> [DecodeUser(out.Body, ZeroUser) EXCEPT !.Authentication = authentication],
               code |-> out.StatusCode, err |-> ""]
    ELSE IF ~out.Body.valid
         THEN [user |-> ZeroUser, code |-> out.StatusCode, err |-> JsonErr]
         ELSE [user |-> ZeroUser, code |-> out.StatusCode, err |-> out.Body.message]

\* RBAC.getUser, given what loginService.Post returned: (User, int, error).
getUser(authentication, out) ==
    IF out.failed THEN [user |-> ZeroUser, code |-> 0, err |-> out.err]
    ELSE IF out.StatusCode = StatusOK
    THEN IF ~out.Body.valid
         THEN [user |-> ZeroUser, code |-> out.StatusCode, err |-> JsonErr]
         ELSE [user |-> [DecodeUser(out.Body, ZeroUser) EXCEPT !.Authentication = authentication],
               code |-> out.StatusCode, err |-> ""]
    ELSE IF ~out.Body.valid
         THEN [user |-> ZeroUser, code |-> out.StatusCode, err |-> JsonErr]
         ELSE [user |-> ZeroUser, code |-> out.StatusCode, err |-> out.Body.error]

\* What the handler writes: RespondWithJSON(w, code, UnauthorizedResponse{...})
\* and RespondWithError(w, code, err) = RespondWithJSON(w, code, ErrorResponse{Err}).
Unauthorized(e) == [status |-> StatusUnauthorized, message |-> UnauthorizedMSG, error |-> e]
RespondWithError(code, e) == [status |-> code, message |-> "", error |-> e]

\* Faulty variant of SwitchCode: every code but 200 is answered 401.
SwitchCodeAllUnauthorized(code, err) ==
    IF code = StatusOK THEN <<>> ELSE <<Unauthorized(err)>>

\* The switch on the code returned by getUser (lines 178-190): the response
\* written, or <<>> when the handler goes on.
SwitchCode(code, err) ==
    IF code = StatusOK THEN <<>>
    ELSE IF code = StatusUnauthorized THEN <<Unauthorized(err)>>
    ELSE <<RespondWithError(StatusBadGateway, err)>>

\* Faulty variant of RejectFor: the server-error test has no upper limit.
RejectForOpenRange(err) ==
    IF err.Code >= 500 THEN RespondWithError(StatusBadGateway, err.Message)
    ELSE IF err.Code > 0 THEN Unauthorized(err.Message)
    ELSE RespondWithError(StatusInternalServerError, err.Message)

\* The decision on the first collected error (lines 211-221).
RejectFor(err) ==
    IF IsServerError(err.Code) THEN RespondWithError(StatusBadGateway, err.Message)
    ELSE IF err.Code > 0 THEN Unauthorized(err.Message)
    ELSE RespondWithError(StatusInternalServerError, err.Message)

\* Faulty variant of DecodeErrResponse: the "error" member is read.
DecodeErrResponseErrorMember(errResponse, body) ==
    IF body.valid THEN [errResponse EXCEPT !.Message = body.error]
    ELSE [errResponse EXCEPT !.Message = JsonErr]

\* json.Unmarshal(resp.Body, &errResponse): Code is tagged json:"-", only
\* Message is set; on failure the message becomes the decode error's text.
DecodeErrResponse(errResponse, body) ==
    IF body.valid THEN [errResponse EXCEPT !.Message = body.message]
    ELSE [errResponse EXCEPT !.Message = JsonErr]

\* Faulty variant of WgAdd: the counter is not raised before the goroutine
\* is started.
WgAddLate(n) == n

\* Faulty variant of WgDone: a branch returns without wg.Done().
WgDoneForgotten(n) == n

\* wg.Add(1) and the deferred wg.Done().
WgAdd(n) == n + 1
WgDone(n) == n - 1

\* Faulty variants of Collect and HasErrors: the collector puts the error
\* in front; the handler tolerates one error.
CollectInFront(list, e) == <<e>> \o list

\* Faulty variant of Collect: a server error is put before the others.
CollectWorstFirst(list, e) ==
    IF e.Code >= 500 /\ e.Code < 600 THEN <<e>> \o list ELSE Append(list, e)
HasErrorsMoreThanOne(list) == Len(list) > 1

\* The appends of the two range loops and of the collector.
AppendLine(lines, item) == Append(lines, item.name)
AppendUnit(units, businessUnit) == Append(units, businessUnit)
Collect(list, e) == Append(list, e)

\* len(errs) > 0 (line 210).
HasErrors(list) == Len(list) > 0

\* ------------------------------------------------------------------ state
Token == "/token"
BusinessLine == "/v2/umvrefdata/businessline"
BusinessUnit == "/v2/umvrefdata/businessunit"
Endpoints == {Token, BusinessLine, BusinessUnit}

VARIABLES
    header,          \* r.Header.Get("Authorization"); <<>> when absent
    pc,              \* where the handler goroutine is
    authentication,  \* local of the handler
    user,            \* local of the handler, shared with both branches by pointer
    code,            \* status code returned by getUser
    err,             \* error returned by getUser ("" = nil)
    wg,              \* counter of the sync.WaitGroup
    errs,            \* the slice the collector appends to
    bl,              \* goroutine of getBusinessLines: pc, errResponse, RefData, i
    bu,              \* goroutine of getBusinessUnits: pc, errResponse, RefData, i
    col,             \* collector goroutine: pc and the value it received
    closed,          \* channels closed by the deferred close calls
    written,         \* responses written to w, in order
    ctx,             \* context.Get(r, userKey): <<>> or <<user>>
    nextCalls,       \* number of invocations of next
    calls,           \* per endpoint, the Authorization values of the calls issued
    lsOut,           \* what loginService.Post returned: <<>> or <<outcome>>
    msOut,           \* per reference endpoint, what memberWrapper.Get returned, less the rows
    emitted          \* errResponse values in the order their sends completed

\* State of one call through Client.do (package http).
VARIABLES
    maxRetry,        \* c.maxRetry
    entry,           \* how the call was made: "Do" or "DoWithContext"
    callerCtx,       \* the caller's context: "live" or "canceled"
    doPc,            \* where Client.do is
    retries,         \* local of Client.do
    result,          \* response, err of Client.do: what the last attempt returned
    attempts,        \* what each invocation of Client.handle returned, in order
    cancelAt         \* <<>>, or <<attempts begun and returned when the caller canceled>>

\* State of one run of the Authorization parser.
VARIABLES
    parseEntry,      \* the function called: "NewAuthentication", "getAuthentication", "String"
    parsePc,         \* "getAuthentication", "parse", "render", "reparse", "done"
    parseHeader,     \* the header value given to NewAuthentication or getAuthentication
    parsed,          \* NewAuthentication's result, or the Authentication given to String
    rendered,        \* Authentication.String of it
    reparsed,        \* NewAuthentication of the rendered value
    got              \* what getAuthentication returned

\* State of one call of Client.Do or Client.DoWithContext up to c.do(request).
VARIABLES
    mergePc,         \* "Do" or "do"
    defaults,        \* c.headers: key -> values
    callHeaders,     \* the headers argument as the caller gave it (nil is the empty map)
    requestHeader,   \* request.Header when c.do is called (the caller's map, written to)
    headersNil,      \* whether the caller passed nil for headers
    callerHeaders,   \* the caller's map as it is now
    sentHeaders      \* request.Header of each call made with that map, in order

\* State of the client's metrics under concurrent calls through one Client.
VARIABLES
    clientMaxRetry,  \* c.maxRetry of that client
    callers,         \* per caller: position in Client.do and retries
    inFlight,        \* http_outbound_requests_in_flight, by label
    counter,         \* http_outbound_requests_total, by label
    statusCounter,   \* http_outbound_requests_status_total, by label and code
    errorCounter,    \* http_outbound_requests_error_total, by label
    duration,        \* observations of http_outbound_request_duration_seconds, by label
    begun,           \* attempts begun, by method
    completed,       \* attempts that returned a response, by method and code
    failed           \* attempts that returned an error, by method

\* State of one GET /ready.
VARIABLES
    readyPc,         \* position in Controller.Ready and the ready handler
    loginClient,     \* whether c.clients["login-service"] is configured
    checks,          \* the dependency checks run, in order
    readyErr,        \* what Controller.Ready returned; "" is nil
    readyWritten     \* the responses written

\* State of one call of NewRBAC.
VARIABLES
    newPc,           \* position in NewRBAC
    cfg,             \* the Config given: LoginService and MemberWrapper
    loginService,    \* local of NewRBAC: the *Client of the first common.New
    memberWrapper,   \* local of NewRBAC: the *Client of the second common.New
    newErr,          \* local err of NewRBAC; "" is nil
    newRBAC          \* <<>>, or <<what NewRBAC returned>>

\* State of one request to the router's Ready handler.
VARIABLES
    dependencies,    \* the ReadyChecker list the handler was built with
    routerPc,        \* position of the handler
    depIndex,        \* index of the range over dependencies
    readyWg,         \* counter of the handler's WaitGroup
    checksChan,      \* content of the buffered channel checks
    checksClosed,    \* whether close(checks) has run
    workers,         \* per dependency, its goroutine: "none", "Ready", "Done", "returned"
    routerWritten    \* the responses written

\* State of the metrics under concurrent calls of GraphQL.Run on one client.
VARIABLES
    runners,         \* per caller: position in GraphQL.Run and the runs completed
    runInFlight,     \* http_outbound_requests_in_flight, by method label
    runError,        \* http_outbound_requests_error_total for "post"
    runDuration      \* observations of the duration histogram for "post"

mwVars == <<header, pc, authentication, user, code, err, wg, errs, bl, bu, col,
            closed, written, ctx, nextCalls, calls, lsOut, msOut, emitted>>
clVars == <<maxRetry, entry, callerCtx, doPc, retries, result, attempts, cancelAt>>
paVars == <<parseEntry, parsePc, parseHeader, parsed, rendered, reparsed, got>>
heVars == <<mergePc, defaults, callHeaders, requestHeader, headersNil, callerHeaders, sentHeaders>>
meVars == <<clientMaxRetry, callers, inFlight, counter, statusCounter, errorCounter, duration,
            begun, completed, failed>>
rdVars == <<readyPc, loginClient, checks, readyErr, readyWritten>>
nrVars == <<newPc, cfg, loginService, memberWrapper, newErr, newRBAC>>
gqVars == <<runners, runInFlight, runError, runDuration>>
rtVars == <<dependencies, routerPc, depIndex, readyWg, checksChan, checksClosed, workers,
            routerWritten>>
vars == <<mwVars, clVars, paVars, heVars, meVars, rdVars, nrVars, rtVars, gqVars>>

NoErr == [Code |-> 0, Message |-> ""]
IdleBranch == [pc |-> "idle", errResponse |-> NoErr, RefData |-> <<>>, i |-> 0]

MiddlewareInit ==
    /\ header \in Headers
    /\ pc = "getAuthentication"
    /\ authentication = NoAuthentication
    /\ user = ZeroUser
    /\ code = 0
    /\ err = ""
    /\ wg = 0
    /\ errs = <<>>
    /\ bl = IdleBranch
    /\ bu = IdleBranch
    /\ col = [pc |-> "idle", err |-> NoErr]
    /\ closed = {}
    /\ written = <<>>
    /\ ctx = <<>>
    /\ nextCalls = 0
    /\ calls = [e \in Endpoints |-> <<>>]
    /\ lsOut = <<>>
    /\ msOut = [e \in {BusinessLine, BusinessUnit} |-> <<>>]
    /\ emitted = <<>>

\* What Client.handle returns: (nil, err) or (&response, nil).
HandleErr(e) == [nil |-> TRUE, err |-> e, StatusCode |-> 0]
HandleOk(c) == [nil |-> FALSE, err |-> "", StatusCode |-> c]
NoResult == [nil |-> TRUE, err |-> "", StatusCode |-> 0]

\* The client and the parser at rest, while a request is followed.
ClientIdle ==
    /\ maxRetry = 0
    /\ entry = "Do"
    /\ callerCtx = "live"
    /\ doPc = "idle"
    /\ retries = 0
    /\ result = NoResult
    /\ attempts = <<>>
    /\ cancelAt = <<>>

NotGot == [authentication |-> NoAuthentication, err |-> ""]

ParserIdle ==
    /\ parseEntry = "NewAuthentication"
    /\ parsePc = "idle"
    /\ parseHeader = <<>>
    /\ parsed = NoAuthentication
    /\ rendered = <<>>
    /\ reparsed = NoAuthentication
    /\ got = NotGot

\* Header names and values followed; no value is a header map without entry.
HeaderKeys == {"Authorization", "Accept"}
NoHeaders == [k \in HeaderKeys |-> <<>>]

MergeIdle ==
    /\ mergePc = "idle"
    /\ defaults = NoHeaders
    /\ callHeaders = NoHeaders
    /\ requestHeader = NoHeaders
    /\ headersNil = TRUE
    /\ callerHeaders = NoHeaders
    /\ sentHeaders = <<>>

\* Callers followed through one client, their methods and the labels of
\* the metrics: strings.ToLower(request.Method), or request.Method as it is.
\* All calls go to one host, which the labels leave out.
NumCallers == 2
Callers == 1..NumCallers
Method(c) == IF c % 2 = 1 THEN "GET" ELSE "POST"
ToLower(method) == IF method = "GET" THEN "get" ELSE "post"
Methods == {"GET", "POST"}
Labels == {"get", "post", "GET", "POST"}
MetricCodes == {200, 500}

MetricsIdle ==
    /\ clientMaxRetry = 0
    /\ callers = [c \in Callers |-> [pc |-> "idle", retries |-> 0]]
    /\ inFlight = [l \in Labels |-> 0]
    /\ counter = [l \in Labels |-> 0]
    /\ statusCounter = [l \in Labels |-> [c \in MetricCodes |-> 0]]
    /\ errorCounter = [l \in Labels |-> 0]
    /\ duration = [l \in Labels |-> 0]
    /\ begun = [t \in Methods |-> 0]
    /\ completed = [t \in Methods |-> [c \in MetricCodes |-> 0]]
    /\ failed = [t \in Methods |-> 0]

ReadyIdle ==
    /\ readyPc = "idle"
    /\ loginClient = FALSE
    /\ checks = <<>>
    /\ readyErr = ""
    /\ readyWritten = <<>>

\* A nil *Client, a nil *RBAC, and a Config of the client package, as far as
\* common.New reads it.
NilClient == [nil |-> TRUE, maxRetry |-> 0]
NilRBAC == [nil |-> TRUE, loginService |-> NilClient, memberWrapper |-> NilClient]
ZeroConf == [URL |-> "", RootCAs |-> "", MaxRetry |-> 0]

\* The method labels GraphQL.Run names: the literal of line 808 and
\* strings.ToLower(http.MethodPost).
RunLabels == {"graphql", "post"}

GraphQLIdle ==
    /\ runners = [c \in Callers |-> [pc |-> "idle", runs |-> 0]]
    /\ runInFlight = [l \in RunLabels |-> 0]
    /\ runError = 0
    /\ runDuration = 0

RouterReadyIdle ==
    /\ dependencies = <<>>
    /\ routerPc = "idle"
    /\ depIndex = 0
    /\ readyWg = 0
    /\ checksChan = <<>>
    /\ checksClosed = FALSE
    /\ workers = <<>>
    /\ routerWritten = <<>>

NewRBACIdle ==
    /\ newPc = "idle"
    /\ cfg = [LoginService |-> ZeroConf, MemberWrapper |-> ZeroConf]
    /\ loginService = NilClient
    /\ memberWrapper = NilClient
    /\ newErr = ""
    /\ newRBAC = <<>>

\* No request under way, while the client or the parser is followed.
MiddlewareIdle ==
    /\ header = <<>>
    /\ pc = "idle"
    /\ authentication = NoAuthentication
    /\ user = ZeroUser
    /\ code = 0
    /\ err = ""
    /\ wg = 0
    /\ errs = <<>>
    /\ bl = IdleBranch
    /\ bu = IdleBranch
    /\ col = [pc |-> "idle", err |-> NoErr]
    /\ closed = {}
    /\ written = <<>>
    /\ ctx = <<>>
    /\ nextCalls = 0
    /\ calls = [e \in Endpoints |-> <<>>]
    /\ lsOut = <<>>
    /\ msOut = [e \in {BusinessLine, BusinessUnit} |-> <<>>]
    /\ emitted = <<>>

Init == MiddlewareInit /\ ClientIdle /\ ParserIdle /\ MergeIdle /\ MetricsIdle /\ ReadyIdle /\ NewRBACIdle /\ RouterReadyIdle /\ GraphQLIdle

\* ------------------------------------------------------ handler goroutine
\* Lines 162-169: parse the header, reject with 401 or go on.
Authenticate ==
    /\ pc = "getAuthentication"
    /\ LET r == getAuthentication(header)
       IN  IF r.err # ""
           THEN /\ written' = Append(written, Unauthorized(r.err))
                /\ pc' = "returned"
                /\ UNCHANGED authentication
           ELSE /\ authentication' = r.authentication
                /\ pc' = "getUser"
                /\ UNCHANGED written
    /\ UNCHANGED <<clVars, paVars, heVars, meVars, rdVars, nrVars, rtVars, gqVars, header, user, code, err, wg, errs, bl, bu, col, closed, ctx,
                   nextCalls, calls, lsOut, msOut, emitted>>

\* Line 177: user, code, err := rbac.getUser(authentication).
Exchange ==
    /\ pc = "getUser"
    /\ \E out \in LoginOutcomes :
          LET g == getUser(authentication, out)
          IN  /\ user' = g.user
              /\ code' = g.code
              /\ err' = g.err
              /\ lsOut' = <<out>>
    /\ calls' = [calls EXCEPT ![Token] = Append(@, String(authentication))]
    /\ pc' = "switch"
    /\ UNCHANGED <<clVars, paVars, heVars, meVars, rdVars, nrVars, rtVars, gqVars, header, authentication, wg, errs,
                   bl, bu, col, closed, written, ctx, nextCalls, msOut, emitted>>

\* Lines 178-190: switch code; a rejection returns through the deferred closes.
Switch ==
    /\ pc = "switch"
    /\ LET w == SwitchCode(code, err)
       IN  IF w = <<>>
           THEN /\ pc' = "getBusinessLines"
                /\ UNCHANGED <<written, closed>>
           ELSE /\ written' = written \o w
                /\ closed' = {"done", "errChan"}
                /\ pc' = "returned"
    /\ UNCHANGED <<clVars, paVars, heVars, meVars, rdVars, nrVars, rtVars, gqVars, header, authentication, user, code, err, wg, errs, bl, bu, col,
                   ctx, nextCalls, calls, lsOut, msOut, emitted>>

\* Line 192 with 266-267: wg.Add(1), go func.
StartBusinessLines ==
    /\ pc = "getBusinessLines"
    /\ wg' = WgAdd(wg)
    /\ bl' = [bl EXCEPT !.pc = "Get"]
    /\ pc' = "getBusinessUnits"
    /\ UNCHANGED <<clVars, paVars, heVars, meVars, rdVars, nrVars, rtVars, gqVars, header, authentication, user, code, err, errs, bu, col, closed,
                   written, ctx, nextCalls, calls, lsOut, msOut, emitted>>

\* Line 193 with 299-300.
StartBusinessUnits ==
    /\ pc = "getBusinessUnits"
    /\ wg' = WgAdd(wg)
    /\ bu' = [bu EXCEPT !.pc = "Get"]
    /\ pc' = "collect"
    /\ UNCHANGED <<clVars, paVars, heVars, meVars, rdVars, nrVars, rtVars, gqVars, header, authentication, user, code, err, errs, bl, col, closed,
                   written, ctx, nextCalls, calls, lsOut, msOut, emitted>>

\* Lines 195-205: errs := make(...), go func (the collector).
StartCollector ==
    /\ pc = "collect"
    /\ errs' = <<>>
    /\ col' = [col EXCEPT !.pc = "select"]
    /\ pc' = "Wait"
    /\ UNCHANGED <<clVars, paVars, heVars, meVars, rdVars, nrVars, rtVars, gqVars, header, authentication, user, code, err, wg, bl, bu, closed,
                   written, ctx, nextCalls, calls, lsOut, msOut, emitted>>

\* Line 207: wg.Wait() returns when the counter is zero.
Wait ==
    /\ pc = "Wait"
    /\ wg = 0
    /\ pc' = "done<-"
    /\ UNCHANGED <<clVars, paVars, heVars, meVars, rdVars, nrVars, rtVars, gqVars, header, authentication, user, code, err, wg, errs, bl, bu, col,
                   closed, written, ctx, nextCalls, calls, lsOut, msOut, emitted>>

\* Faulty variant of SendDone: the send on done completes without the
\* collector receiving it, as on a buffered channel.
SendDoneBuffered ==
    /\ pc = "done<-"
    /\ pc' = "decide"
    /\ UNCHANGED <<clVars, paVars, heVars, meVars, rdVars, nrVars, rtVars, gqVars, header, authentication, user, code, err, wg, errs, bl, bu,
                   col, closed, written, ctx, nextCalls, calls, lsOut, msOut, emitted>>

\* Line 208 with 201-202: done <- nil meets the collector's case <-done.
SendDone ==
    /\ pc = "done<-"
    /\ col.pc = "select"
    /\ col' = [col EXCEPT !.pc = "returned"]
    /\ pc' = "decide"
    /\ UNCHANGED <<clVars, paVars, heVars, meVars, rdVars, nrVars, rtVars, gqVars, header, authentication, user, code, err, wg, errs, bl, bu,
                   closed, written, ctx, nextCalls, calls, lsOut, msOut, emitted>>

\* Lines 210-226 and the deferred closes.
Decide ==
    /\ pc = "decide"
    /\ IF HasErrors(errs)
       THEN /\ written' = Append(written, RejectFor(errs[1]))
            /\ UNCHANGED <<ctx, nextCalls>>
       ELSE /\ ctx' = <<user>>
            /\ nextCalls' = nextCalls + 1
            /\ UNCHANGED written
    /\ closed' = {"done", "errChan"}
    /\ pc' = "returned"
    /\ UNCHANGED <<clVars, paVars, heVars, meVars, rdVars, nrVars, rtVars, gqVars, header, authentication, user, code, err, wg, errs, bl, bu, col,
                   calls, lsOut, msOut, emitted>>

\* --------------------------------------------------- enrichment goroutines
\* Position after the range statement has handed out item i - 1.
AfterItem(i, list) == IF i > Len(list) THEN "Done" ELSE "range"

\* Faulty variant of AfterGet: a branch whose call failed in transport
\* issues the call again.
AfterGetAgain(out) ==
    IF out.failed
    THEN [pc |-> "Get", errResponse |-> [Code |-> 0, Message |-> ""],
          RefData |-> <<>>, i |-> 0]
    ELSE IF out.StatusCode = StatusOK
    THEN IF ~out.Body.valid
         THEN [pc |-> "send", errResponse |-> [Code |-> out.StatusCode, Message |-> JsonErr],
               RefData |-> <<>>, i |-> 0]
         ELSE [pc |-> AfterItem(1, out.Body.refData),
               errResponse |-> [Code |-> out.StatusCode, Message |-> ""],
               RefData |-> out.Body.refData, i |-> 1]
    ELSE [pc |-> "send",
          errResponse |-> DecodeErrResponse([Code |-> out.StatusCode, Message |-> ""], out.Body),
          RefData |-> <<>>, i |-> 0]

\* Lines 269-294 up to the first append or send: the branch's state after
\* memberWrapper.Get returned `out`.  Shared by both branches, whose code is
\* the same up to the body of the range loop.
AfterGet(out) ==
    IF out.failed
    THEN [pc |-> "send", errResponse |-> [Code |-> 0, Message |-> out.err],
          RefData |-> <<>>, i |-> 0]
    ELSE IF out.StatusCode = StatusOK
    THEN IF ~out.Body.valid
         THEN [pc |-> "send", errResponse |-> [Code |-> out.StatusCode, Message |-> JsonErr],
               RefData |-> <<>>, i |-> 0]
         ELSE [pc |-> AfterItem(1, out.Body.refData),
               errResponse |-> [Code |-> out.StatusCode, Message |-> ""],
               RefData |-> out.Body.refData, i |-> 1]
    ELSE [pc |-> "send",
          errResponse |-> DecodeErrResponse([Code |-> out.StatusCode, Message |-> ""], out.Body),
          RefData |-> <<>>, i |-> 0]

\* Faulty variant of AfterSend: a body that does not decode is sent a
\* second time before the goroutine ends.
AfterSendTwice(b) ==
    IF b.i = 0 /\ b.errResponse.Message = JsonErr
    THEN [b EXCEPT !.i = 1]
    ELSE [b EXCEPT !.pc = "Done"]

\* After ch <- errResponse: the return of lines 274 and 323, or the end of
\* the function; in each case the deferred wg.Done() is next.
AfterSend(b) == [b EXCEPT !.pc = "Done"]

\* Line 270: the business-line call and the decoding of its answer.
BusinessLinesGet ==
    /\ bl.pc = "Get"
    /\ \E out \in MemberOutcomes :
          /\ bl' = AfterGet(out)
          /\ msOut' = [msOut EXCEPT ![BusinessLine] = <<Received(out)>>]
    /\ calls' = [calls EXCEPT ![BusinessLine] = Append(@, String(user.Authentication))]
    /\ UNCHANGED <<clVars, paVars, heVars, meVars, rdVars, nrVars, rtVars, gqVars, header, pc, authentication, user, code, err, wg, errs, bu, col,
                   closed, written, ctx, nextCalls, lsOut, emitted>>

\* Faulty variant of BusinessLinesAppend: the iteration also resets the
\* business units of the shared user.
BusinessLinesAppendClearingUnits ==
    /\ bl.pc = "range"
    /\ user' = [user EXCEPT !.BusinessLines = AppendLine(@, bl.RefData[bl.i]),
                            !.BusinessUnits = <<>>]
    /\ bl' = [bl EXCEPT !.i = @ + 1, !.pc = AfterItem(bl.i + 1, bl.RefData)]
    /\ UNCHANGED <<clVars, paVars, heVars, meVars, rdVars, nrVars, rtVars, gqVars, header, pc, authentication, code, err, wg, errs, bu, col, closed,
                   written, ctx, nextCalls, calls, lsOut, msOut, emitted>>

\* Lines 285-287: one iteration of the range loop.
BusinessLinesAppend ==
    /\ bl.pc = "range"
    /\ user' = [user EXCEPT !.BusinessLines = AppendLine(@, bl.RefData[bl.i])]
    /\ bl' = [bl EXCEPT !.i = @ + 1, !.pc = AfterItem(bl.i + 1, bl.RefData)]
    /\ UNCHANGED <<clVars, paVars, heVars, meVars, rdVars, nrVars, rtVars, gqVars, header, pc, authentication, code, err, wg, errs, bu, col, closed,
                   written, ctx, nextCalls, calls, lsOut, msOut, emitted>>

\* ch <- errResponse (lines 273, 283, 293) meets the collector's
\* case err := <-errChan (line 199).
BusinessLinesSend ==
    /\ bl.pc = "send"
    /\ col.pc = "select"
    /\ col' = [pc |-> "append", err |-> bl.errResponse]
    /\ emitted' = Append(emitted, bl.errResponse)
    /\ bl' = AfterSend(bl)
    /\ UNCHANGED <<clVars, paVars, heVars, meVars, rdVars, nrVars, rtVars, gqVars, header, pc, authentication, user, code, err, wg, errs, bu, closed,
                   written, ctx, nextCalls, calls, lsOut, msOut>>

\* Line 268: the deferred wg.Done().
BusinessLinesDone ==
    /\ bl.pc = "Done"
    /\ wg' = WgDone(wg)
    /\ bl' = [bl EXCEPT !.pc = "returned"]
    /\ UNCHANGED <<clVars, paVars, heVars, meVars, rdVars, nrVars, rtVars, gqVars, header, pc, authentication, user, code, err, errs, bu, col, closed,
                   written, ctx, nextCalls, calls, lsOut, msOut, emitted>>

\* Line 303.
BusinessUnitsGet ==
    /\ bu.pc = "Get"
    /\ \E out \in MemberOutcomes :
          /\ bu' = AfterGet(out)
          /\ msOut' = [msOut EXCEPT ![BusinessUnit] = <<Received(out)>>]
    /\ calls' = [calls EXCEPT ![BusinessUnit] = Append(@, String(user.Authentication))]
    /\ UNCHANGED <<clVars, paVars, heVars, meVars, rdVars, nrVars, rtVars, gqVars, header, pc, authentication, user, code, err, wg, errs, bl, col,
                   closed, written, ctx, nextCalls, lsOut, emitted>>

\* Faulty variant of AfterParseFailure: the row is skipped and the loop
\* goes on.
AfterParseFailureSkip(b) ==
    [b EXCEPT !.i = @ + 1, !.pc = AfterItem(b.i + 1, b.RefData)]

\* Lines 320-324: the branch after strconv.Atoi failed on row b.i.
AfterParseFailure(b) == [b EXCEPT !.errResponse.Message = AtoiErr, !.pc = "send"]

\* Lines 318-326: one iteration; a code that does not parse ends the loop
\* with a send and a return.
BusinessUnitsAppend ==
    /\ bu.pc = "range"
    /\ LET businessUnit == Atoi(bu.RefData[bu.i].code)
       IN  IF ~businessUnit.ok
           THEN /\ bu' = AfterParseFailure(bu)
                /\ UNCHANGED user
           ELSE /\ user' = [user EXCEPT !.BusinessUnits = AppendUnit(@, businessUnit.val)]
                /\ bu' = [bu EXCEPT !.i = @ + 1, !.pc = AfterItem(bu.i + 1, bu.RefData)]
    /\ UNCHANGED <<clVars, paVars, heVars, meVars, rdVars, nrVars, rtVars, gqVars, header, pc, authentication, code, err, wg, errs, bl, col, closed,
                   written, ctx, nextCalls, calls, lsOut, msOut, emitted>>

\* Lines 306, 316, 322, 332.
BusinessUnitsSend ==
    /\ bu.pc = "send"
    /\ col.pc = "select"
    /\ col' = [pc |-> "append", err |-> bu.errResponse]
    /\ emitted' = Append(emitted, bu.errResponse)
    /\ bu' = AfterSend(bu)
    /\ UNCHANGED <<clVars, paVars, heVars, meVars, rdVars, nrVars, rtVars, gqVars, header, pc, authentication, user, code, err, wg, errs, bl, closed,
                   written, ctx, nextCalls, calls, lsOut, msOut>>

\* Line 301.
BusinessUnitsDone ==
    /\ bu.pc = "Done"
    /\ wg' = WgDone(wg)
    /\ bu' = [bu EXCEPT !.pc = "returned"]
    /\ UNCHANGED <<clVars, paVars, heVars, meVars, rdVars, nrVars, rtVars, gqVars, header, pc, authentication, user, code, err, errs, bl, col, closed,
                   written, ctx, nextCalls, calls, lsOut, msOut, emitted>>

\* ---------------------------------------------------- collector goroutine
\* Line 200: errs = append(errs, err), then back to the select.
CollectorAppend ==
    /\ col.pc = "append"
    /\ errs' = Collect(errs, col.err)
    /\ col' = [pc |-> "select", err |-> NoErr]
    /\ UNCHANGED <<clVars, paVars, heVars, meVars, rdVars, nrVars, rtVars, gqVars, header, pc, authentication, user, code, err, wg, bl, bu, closed,
                   written, ctx, nextCalls, calls, lsOut, msOut, emitted>>

\* ----------------------------------------------------------- specification
Next ==
    \/ Authenticate
    \/ Exchange
    \/ Switch
    \/ StartBusinessLines
    \/ StartBusinessUnits
    \/ StartCollector
    \/ Wait
    \/ SendDone
    \/ Decide
    \/ BusinessLinesGet
    \/ BusinessLinesAppend
    \/ BusinessLinesSend
    \/ BusinessLinesDone
    \/ BusinessUnitsGet
    \/ BusinessUnitsAppend
    \/ BusinessUnitsSend
    \/ BusinessUnitsDone
    \/ CollectorAppend

Spec == Init /\ [][Next]_vars

\* Every goroutine that can take a step is scheduled, and every outbound
\* call returns.
Handler ==
    \/ Authenticate \/ Exchange \/ Switch \/ StartBusinessLines \/ StartBusinessUnits
    \/ StartCollector \/ Wait \/ SendDone \/ Decide
BusinessLinesGoroutine ==
    BusinessLinesGet \/ BusinessLinesAppend \/ BusinessLinesSend \/ BusinessLinesDone
BusinessUnitsGoroutine ==
    BusinessUnitsGet \/ BusinessUnitsAppend \/ BusinessUnitsSend \/ BusinessUnitsDone

FairSpec ==
    /\ Spec
    /\ WF_vars(Handler)
    /\ WF_vars(BusinessLinesGoroutine)
    /\ WF_vars(BusinessUnitsGoroutine)
    /\ WF_vars(CollectorAppend)

\* ------------------------------------------------------------- Client.do
\* Largest c.maxRetry followed.
MaxRetry == 2

Canceled == "context canceled"
DeadlineExceeded == "context deadline exceeded"
\* Errors of an attempt that do not come from the request's context: a
\* refused connection, the expiry of the client's own Timeout.
AttemptErrs == {"connection refused", DeadlineExceeded}
ClientCodes == {200, 499, 500, 599, 600}

\* The context of the request Client.do sends: Client.Do builds the request
\* with http.NewRequest (context.Background); only DoWithContext attaches
\* the caller's context.
RequestCtxDone == entry = "DoWithContext" /\ callerCtx = "canceled"

\* What an attempt can return.  context.Canceled needs a canceled request
\* context; with one, the transport may still answer.
HandleOutcomes(done) ==
    {HandleErr(e) : e \in AttemptErrs \cup (IF done THEN {Canceled} ELSE {})}
      \cup {HandleOk(c) : c \in ClientCodes}

\* Faulty variant of LoopTop: the loop admits a retry when retries equals
\* c.maxRetry.
LoopTopInclusive(n, max) == IF n <= max THEN "sleep" ELSE "return"

\* for retries < c.maxRetry (line 682): sleep and try again, or fall out of
\* the loop to the final return.
LoopTop(n, max) == IF n < max THEN "sleep" ELSE "return"

\* Faulty variant of DoNext: the loop tests the same conditions but goes on
\* after a response that is not a server error.
DoNextNoEarlyReturn(first, r, n, max) ==
    IF first
    THEN IF (r.err # "" \/ inRange(r.StatusCode, 500, 600)) /\ max > 0
         THEN IF r.err = Canceled THEN "return" ELSE LoopTop(n, max)
         ELSE "return"
    ELSE LoopTop(n, max)

\* Faulty variant of DoNext: max retries is not tested before the loop and
\* the loop admits one retry more.
DoNextOffByOne(first, r, n, max) ==
    IF first
    THEN IF r.err # "" \/ inRange(r.StatusCode, 500, 600)
         THEN IF r.err = Canceled THEN "return" ELSE LoopTop(n, max + 1)
         ELSE "return"
    ELSE IF r.err # "" THEN LoopTop(n, max + 1)
    ELSE IF ~inRange(r.StatusCode, 500, 600) THEN "return"
    ELSE LoopTop(n, max + 1)

\* Client.do after an attempt returned r (lines 669-702): "return", or
\* "sleep" before another attempt.  first = r is the first attempt's result,
\* n = retries.
DoNext(first, r, n, max) ==
    IF first
    THEN IF (r.err # "" \/ inRange(r.StatusCode, 500, 600)) /\ max > 0
         THEN IF r.err = Canceled THEN "return" ELSE LoopTop(n, max)
         ELSE "return"
    ELSE IF r.err # "" THEN LoopTop(n, max)
    ELSE IF ~inRange(r.StatusCode, 500, 600) THEN "return"
    ELSE LoopTop(n, max)

\* Faulty variant of Assign: a failed attempt leaves the response of the
\* attempt before it in place.
AssignKeepingResponse(old, r) ==
    IF r.nil /\ ~old.nil
    THEN [nil |-> FALSE, err |-> r.err, StatusCode |-> old.StatusCode]
    ELSE r

\* response, err = c.handle(request) (lines 669 and 686): both results of
\* Client.do are overwritten by each attempt.
Assign(old, r) == r

\* The entry the middleware uses for its three calls: loginService.Post and
\* memberWrapper.Get, both Client.Do.
MiddlewareEntry == "Do"

ClientInit ==
    /\ maxRetry \in 0..MaxRetry
    /\ entry \in {"Do", "DoWithContext"}
    /\ callerCtx = "live"
    /\ doPc = "handle"
    /\ retries = 0
    /\ result = NoResult
    /\ attempts = <<>>
    /\ cancelAt = <<>>
    /\ MiddlewareIdle
    /\ ParserIdle
    /\ MergeIdle
    /\ MetricsIdle
    /\ ReadyIdle
    /\ NewRBACIdle
    /\ RouterReadyIdle
    /\ GraphQLIdle

\* Attempts begun so far: the finished ones and the one in flight.
Begun == Len(attempts) + (IF doPc = "inflight" THEN 1 ELSE 0)

\* Client.handle is entered (lines 668 and 686).
HandleBegin ==
    /\ doPc = "handle"
    /\ doPc' = "inflight"
    /\ UNCHANGED <<maxRetry, entry, callerCtx, retries, result, attempts, cancelAt>>
    /\ UNCHANGED <<mwVars, paVars, heVars, meVars, rdVars, nrVars, rtVars, gqVars>>

\* Client.handle returns, and Client.do runs up to its return or its next
\* time.Sleep.
HandleEnd ==
    /\ doPc = "inflight"
    /\ \E r \in HandleOutcomes(RequestCtxDone) :
          /\ result' = Assign(result, r)
          /\ attempts' = Append(attempts, r)
          /\ doPc' = IF DoNext(attempts = <<>>, r, retries, maxRetry) = "return"
                     THEN "returned" ELSE "sleep"
    /\ UNCHANGED <<maxRetry, entry, callerCtx, retries, cancelAt>>
    /\ UNCHANGED <<mwVars, paVars, heVars, meVars, rdVars, nrVars, rtVars, gqVars>>

\* Lines 683-685: time.Sleep(c.retryDelay); retries++.
Sleep ==
    /\ doPc = "sleep"
    /\ retries' = retries + 1
    /\ doPc' = "handle"
    /\ UNCHANGED <<maxRetry, entry, callerCtx, result, attempts, cancelAt>>
    /\ UNCHANGED <<mwVars, paVars, heVars, meVars, rdVars, nrVars, rtVars, gqVars>>

\* The caller's context is canceled while the call is under way (for a call
\* of the middleware: the inbound request goes away).
Cancel ==
    /\ doPc \in {"handle", "inflight", "sleep"}
    /\ callerCtx = "live"
    /\ callerCtx' = "canceled"
    /\ cancelAt' = <<[begun |-> Begun, done |-> Len(attempts)]>>
    /\ UNCHANGED <<maxRetry, entry, doPc, retries, result, attempts>>
    /\ UNCHANGED <<mwVars, paVars, heVars, meVars, rdVars, nrVars, rtVars, gqVars>>

ClientNext == HandleBegin \/ HandleEnd \/ Sleep \/ Cancel

ClientSpec == ClientInit /\ [][ClientNext]_vars

\* Every attempt returns (the http.Client answers or fails) and every
\* time.Sleep ends.
FairClientSpec ==
    /\ ClientSpec
    /\ WF_vars(HandleBegin)
    /\ WF_vars(HandleEnd)
    /\ WF_vars(Sleep)

\* ------------------------------------------- Client.Do: default headers
\* Most values a call gives for one header.
MaxValues == 2
\* Most calls made with one headers value.
MaxCalls == 2

HeaderValues == {"explicit", "other"}
DefaultValue == "default"

\* c.headers, built by New with headers.Set: at most one value for a key.
DefaultHeaders == [HeaderKeys -> {<<>>, <<DefaultValue>>}]
\* The headers argument of a call.
CallHeaders == [HeaderKeys -> SeqsUpTo(HeaderValues, MaxValues)]

\* for k, vs := range c.headers { for _, v := range vs { headers.Add(k, v) } }
Merge(call, dflt) == [k \in HeaderKeys |-> call[k] \o dflt[k]]

MergeInit ==
    /\ mergePc = "Do"
    /\ defaults \in DefaultHeaders
    /\ callHeaders \in CallHeaders
    /\ requestHeader = NoHeaders
    /\ headersNil \in (IF callHeaders = NoHeaders THEN BOOLEAN ELSE {FALSE})
    /\ callerHeaders = callHeaders
    /\ sentHeaders = <<>>
    /\ MiddlewareIdle
    /\ ClientIdle
    /\ ParserIdle
    /\ MetricsIdle
    /\ ReadyIdle
    /\ NewRBACIdle
    /\ RouterReadyIdle
    /\ GraphQLIdle

\* Client.Do and Client.DoWithContext up to the call of c.do: headers.Add
\* writes into the map the caller passed, which becomes request.Header; for
\* a nil argument the map written to is a new one (lines 579-581).
DoMerge ==
    /\ mergePc = "Do"
    /\ requestHeader' = Merge(callerHeaders, defaults)
    /\ callerHeaders' = IF headersNil THEN callerHeaders ELSE requestHeader'
    /\ sentHeaders' = Append(sentHeaders, requestHeader')
    /\ mergePc' = "do"
    /\ UNCHANGED <<defaults, callHeaders, headersNil>>
    /\ UNCHANGED <<mwVars, clVars, paVars, meVars, rdVars, nrVars, rtVars, gqVars>>

\* The call has returned and the caller calls again with the same headers
\* value.
DoAgain ==
    /\ mergePc = "do"
    /\ Len(sentHeaders) < MaxCalls
    /\ mergePc' = "Do"
    /\ UNCHANGED <<defaults, callHeaders, requestHeader, headersNil, callerHeaders, sentHeaders>>
    /\ UNCHANGED <<mwVars, clVars, paVars, meVars, rdVars, nrVars, rtVars, gqVars>>

MergeNext == DoMerge \/ DoAgain

MergeSpec == MergeInit /\ [][MergeNext]_vars

\* ------------------------------------------------ Client.handle: metrics
\* The ways through Client.handle: c.client.Do fails ("failed"); the response
\* arrives and its body is read ("completed"); the response arrives and
\* ioutil.ReadAll fails ("unread").
HandleRuns ==
    {[kind |-> "failed", code |-> 0]}
      \cup {[kind |-> k, code |-> c] : k \in {"completed", "unread"}, c \in MetricCodes}

\* What Client.handle returns at the end of a run.
Returned(run) ==
    CASE run.kind = "completed" -> HandleOk(run.code)
      [] run.kind = "failed" -> HandleErr("connection refused")
      [] run.kind = "unread" -> HandleErr("unexpected EOF")

Inc(f, l) == [f EXCEPT ![l] = @ + 1]
Dec(f, l) == [f EXCEPT ![l] = @ - 1]
IncAt(f, l, c) == [f EXCEPT ![l][c] = @ + 1]

\* Faulty variant of ExitLabel: the method is not lowered.
ExitLabelRaw(method) == method

\* The labels of the gauge at lines 706 and 707, and of the error counter at
\* lines 719 (c.client.Do failed) and 730 (ReadAll failed).
EntryLabel(method) == ToLower(method)
ExitLabel(method) == ToLower(method)
ErrorLabel(method, run) == IF run.kind = "failed" THEN ToLower(method) ELSE method

\* The client's c.maxRetry ranges below MaxRetry here: the callers are
\* several and their attempts interleave.
MetricsInit ==
    /\ clientMaxRetry \in 0..(MaxRetry - 1)
    /\ callers = [c \in Callers |-> [pc |-> "handle", retries |-> 0]]
    /\ inFlight = [l \in Labels |-> 0]
    /\ counter = [l \in Labels |-> 0]
    /\ statusCounter = [l \in Labels |-> [c \in MetricCodes |-> 0]]
    /\ errorCounter = [l \in Labels |-> 0]
    /\ duration = [l \in Labels |-> 0]
    /\ begun = [t \in Methods |-> 0]
    /\ completed = [t \in Methods |-> [c \in MetricCodes |-> 0]]
    /\ failed = [t \in Methods |-> 0]
    /\ MiddlewareIdle
    /\ ClientIdle
    /\ ParserIdle
    /\ MergeIdle
    /\ ReadyIdle
    /\ NewRBACIdle
    /\ RouterReadyIdle
    /\ GraphQLIdle

\* Client.handle is entered (lines 706-707): the gauge goes up.  No
\* statement of the package increments m.counter.
AttemptBegin(c) ==
    /\ callers[c].pc = "handle"
    /\ callers' = [callers EXCEPT ![c].pc = "inflight"]
    /\ inFlight' = Inc(inFlight, EntryLabel(Method(c)))
    /\ begun' = Inc(begun, Method(c))
    /\ UNCHANGED <<clientMaxRetry, counter, statusCounter, errorCounter, duration,
                   completed, failed>>
    /\ UNCHANGED <<mwVars, clVars, paVars, heVars, rdVars, nrVars, rtVars, gqVars>>

\* Client.handle returns (lines 717-749, the deferred Dec of line 707), and
\* Client.do runs up to its return or its next time.Sleep.
AttemptEnd(c) ==
    /\ callers[c].pc = "inflight"
    /\ \E run \in HandleRuns :
          LET t == Method(c)
          IN  /\ statusCounter' = IF run.kind \in {"completed", "unread"}
                                  THEN IncAt(statusCounter, ToLower(t), run.code)
                                  ELSE statusCounter
              /\ errorCounter' = IF run.kind \in {"failed", "unread"}
                                 THEN Inc(errorCounter, ErrorLabel(t, run))
                                 ELSE errorCounter
              /\ duration' = IF run.kind = "completed" THEN Inc(duration, ToLower(t))
                             ELSE duration
              /\ inFlight' = Dec(inFlight, ExitLabel(t))
              /\ completed' = IF run.kind = "completed" THEN IncAt(completed, t, run.code)
                              ELSE completed
              /\ failed' = IF run.kind = "completed" THEN failed ELSE Inc(failed, t)
              /\ callers' = [callers EXCEPT ![c].pc =
                    IF DoNext(callers[c].retries = 0, Returned(run), callers[c].retries,
                              clientMaxRetry) = "return"
                    THEN "returned" ELSE "sleep"]
    /\ UNCHANGED <<clientMaxRetry, counter, begun>>
    /\ UNCHANGED <<mwVars, clVars, paVars, heVars, rdVars, nrVars, rtVars, gqVars>>

\* Lines 683-685 of a caller.
RetrySleep(c) ==
    /\ callers[c].pc = "sleep"
    /\ callers' = [callers EXCEPT ![c].pc = "handle", ![c].retries = @ + 1]
    /\ UNCHANGED <<clientMaxRetry, inFlight, counter, statusCounter, errorCounter, duration,
                   begun, completed, failed>>
    /\ UNCHANGED <<mwVars, clVars, paVars, heVars, rdVars, nrVars, rtVars, gqVars>>

MetricsNext == \E c \in Callers : AttemptBegin(c) \/ AttemptEnd(c) \/ RetrySleep(c)

MetricsSpec == MetricsInit /\ [][MetricsNext]_vars

\* ------------------------------------------------------------ GET /ready
\* Probes followed one after the other.
MaxProbes == 2

StatusServiceUnavailable == 503
ErrNotAvailable == "chp-api dependency is not available"
ErrNoDatabase == "could not connect to database"
PingErrs == {ErrNoDatabase, "context deadline exceeded"}

\* What the login-service client's Get and the two pings can return.
ReadyLoginOutcomes ==
    {[failed |-> TRUE, err |-> e, StatusCode |-> 0] : e \in TransportErrs}
      \cup {[failed |-> FALSE, err |-> "", StatusCode |-> c] : c \in StatusCodes}
PingOutcomes == {""} \cup PingErrs

\* Faulty variant of LoginErr: only a server error makes the dependency
\* unavailable.
LoginErrServerOnly(out) ==
    IF out.failed THEN out.err
    ELSE IF out.StatusCode >= 500 THEN ErrNotAvailable
    ELSE ""

\* Controller.Ready, lines 42-52: the error of the login-service check, ""
\* for none.
LoginErr(out) ==
    IF out.failed THEN out.err
    ELSE IF out.StatusCode # StatusOK THEN ErrNotAvailable
    ELSE ""

\* router.RespondWithError(w, code, err) and router.Respond(w, code, body).
ReadyError(c, e) == [status |-> c, error |-> e, body |-> ""]
ReadyOK == [status |-> StatusOK, error |-> "", body |-> "OK"]

ReadyInit ==
    /\ readyPc = "login-service"
    /\ loginClient \in BOOLEAN
    /\ checks = <<>>
    /\ readyErr = ""
    /\ readyWritten = <<>>
    /\ MiddlewareIdle
    /\ ClientIdle
    /\ ParserIdle
    /\ MergeIdle
    /\ MetricsIdle
    /\ NewRBACIdle
    /\ RouterReadyIdle
    /\ GraphQLIdle

\* After a check that returned e: Controller.Ready returns it, or goes on.
AfterCheck(e, then) == IF e # "" THEN "respond" ELSE then

\* Lines 42-52.
CheckLogin ==
    /\ readyPc = "login-service"
    /\ IF loginClient
       THEN \E out \in ReadyLoginOutcomes :
               /\ checks' = Append(checks, [name |-> "login-service", out |-> out,
                                            err |-> LoginErr(out)])
               /\ readyErr' = LoginErr(out)
               /\ readyPc' = AfterCheck(LoginErr(out), "Mongo")
       ELSE /\ readyPc' = "Mongo"
            /\ UNCHANGED <<checks, readyErr>>
    /\ UNCHANGED <<loginClient, readyWritten>>
    /\ UNCHANGED <<mwVars, clVars, paVars, heVars, meVars, nrVars, rtVars, gqVars>>

\* Lines 54-59.
CheckMongo ==
    /\ readyPc = "Mongo"
    /\ \E e \in PingOutcomes :
          /\ checks' = Append(checks, [name |-> "Mongo", out |-> e, err |-> e])
          /\ readyErr' = e
          /\ readyPc' = AfterCheck(e, "Mssql")
    /\ UNCHANGED <<loginClient, readyWritten>>
    /\ UNCHANGED <<mwVars, clVars, paVars, heVars, meVars, nrVars, rtVars, gqVars>>

\* Lines 61-68.
CheckMssql ==
    /\ readyPc = "Mssql"
    /\ \E e \in PingOutcomes :
          /\ checks' = Append(checks, [name |-> "Mssql", out |-> e, err |-> e])
          /\ readyErr' = e
          /\ readyPc' = "respond"
    /\ UNCHANGED <<loginClient, readyWritten>>
    /\ UNCHANGED <<mwVars, clVars, paVars, heVars, meVars, nrVars, rtVars, gqVars>>

\* The ready handler after ctrl.Ready() returned (server.go lines 64-69).
ReadyRespond ==
    /\ readyPc = "respond"
    /\ readyWritten' = Append(readyWritten,
                              IF readyErr # ""
                              THEN ReadyError(StatusServiceUnavailable, readyErr)
                              ELSE ReadyOK)
    /\ readyPc' = "returned"
    /\ UNCHANGED <<loginClient, checks, readyErr>>
    /\ UNCHANGED <<mwVars, clVars, paVars, heVars, meVars, nrVars, rtVars, gqVars>>

\* The next probe arrives.
NextProbe ==
    /\ readyPc = "returned"
    /\ Len(readyWritten) < MaxProbes
    /\ readyPc' = "login-service"
    /\ checks' = <<>>
    /\ readyErr' = ""
    /\ UNCHANGED <<loginClient, readyWritten>>
    /\ UNCHANGED <<mwVars, clVars, paVars, heVars, meVars, nrVars, rtVars, gqVars>>

ReadyNext == CheckLogin \/ CheckMongo \/ CheckMssql \/ ReadyRespond \/ NextProbe

ReadySpec == ReadyInit /\ [][ReadyNext]_vars

\* ---------------------------------------------------- Authorization parser
\* Longest header value given to the parser alone.
MaxParseLen == 5

\* Longest scheme and longest credential of an Authentication put together
\* by a caller (a struct literal) and given to String.
MaxFieldLen == 2

\* Authentication values a caller can put together: any two strings.
Authentications ==
    {[Type |-> t, Credenteials |-> c] :
        t \in SeqsUpTo(HeaderAtoms, MaxFieldLen), c \in SeqsUpTo(HeaderAtoms, MaxFieldLen)}

\* A run is a call of NewAuthentication on a header value (followed by
\* String on its result and NewAuthentication on that), a call of
\* getAuthentication on a request with that Authorization value, or a call
\* of String on a caller's Authentication (followed by NewAuthentication).
ParserInit ==
    /\ parseEntry \in {"NewAuthentication", "getAuthentication", "String"}
    /\ parsePc = CASE parseEntry = "NewAuthentication" -> "parse"
                   [] parseEntry = "getAuthentication" -> "getAuthentication"
                   [] parseEntry = "String" -> "render"
    /\ IF parseEntry = "String"
       THEN parseHeader = <<>> /\ parsed \in Authentications
       ELSE parseHeader \in SeqsUpTo(HeaderAtoms, MaxParseLen) /\ parsed = NoAuthentication
    /\ rendered = <<>>
    /\ reparsed = NoAuthentication
    /\ got = NotGot
    /\ MiddlewareIdle
    /\ ClientIdle
    /\ MergeIdle
    /\ MetricsIdle
    /\ ReadyIdle
    /\ NewRBACIdle
    /\ RouterReadyIdle
    /\ GraphQLIdle

Parse ==
    /\ parsePc = "parse"
    /\ parsed' = NewAuthentication(parseHeader)
    /\ parsePc' = "render"
    /\ UNCHANGED <<parseEntry, parseHeader, rendered, reparsed, got>>
    /\ UNCHANGED <<mwVars, clVars, heVars, meVars, rdVars, nrVars, rtVars, gqVars>>

Render ==
    /\ parsePc = "render"
    /\ rendered' = String(parsed)
    /\ parsePc' = "reparse"
    /\ UNCHANGED <<parseEntry, parseHeader, parsed, reparsed, got>>
    /\ UNCHANGED <<mwVars, clVars, heVars, meVars, rdVars, nrVars, rtVars, gqVars>>

Reparse ==
    /\ parsePc = "reparse"
    /\ reparsed' = NewAuthentication(rendered)
    /\ parsePc' = "done"
    /\ UNCHANGED <<parseEntry, parseHeader, parsed, rendered, got>>
    /\ UNCHANGED <<mwVars, clVars, heVars, meVars, rdVars, nrVars, rtVars, gqVars>>

GetAuthentication ==
    /\ parsePc = "getAuthentication"
    /\ got' = getAuthentication(parseHeader)
    /\ parsePc' = "done"
    /\ UNCHANGED <<parseEntry, parseHeader, parsed, rendered, reparsed>>
    /\ UNCHANGED <<mwVars, clVars, heVars, meVars, rdVars, nrVars, rtVars, gqVars>>

ParserNext == Parse \/ Render \/ Reparse \/ GetAuthentication

ParserSpec == ParserInit /\ [][ParserNext]_vars

\* ----------------------------------------------------------------- NewRBAC
\* Configurations: a URL that url.Parse accepts and one it rejects; no CA
\* bundle, a readable PEM bundle, a path that cannot be read.
ErrParse == "parse: missing protocol scheme"
ErrReadFile == "open: no such file or directory"
URLs == {"http://service", ":service"}
RootCAs == {"", "ca.pem", "missing.pem"}
Confs == [URL : URLs, RootCAs : RootCAs, MaxRetry : 0..MaxRetry]

\* common.New (lines 514-553): (nil, err) when the URL does not parse or the
\* CA bundle cannot be loaded, otherwise the client of that configuration.
New(conf) ==
    IF conf.URL = ":service" THEN [client |-> NilClient, err |-> ErrParse]
    ELSE IF conf.RootCAs = "missing.pem" THEN [client |-> NilClient, err |-> ErrReadFile]
    ELSE [client |-> [nil |-> FALSE, maxRetry |-> conf.MaxRetry], err |-> ""]

NewRBACInit ==
    /\ newPc = "loginService"
    /\ cfg \in [LoginService : Confs, MemberWrapper : Confs]
    /\ loginService = NilClient
    /\ memberWrapper = NilClient
    /\ newErr = ""
    /\ newRBAC = <<>>
    /\ MiddlewareIdle
    /\ ClientIdle
    /\ ParserIdle
    /\ MergeIdle
    /\ MetricsIdle
    /\ ReadyIdle
    /\ RouterReadyIdle
    /\ GraphQLIdle

\* Lines 149-152: loginService, err := common.New(cfg.LoginService); a
\* failure is returned.
NewLoginService ==
    /\ newPc = "loginService"
    /\ LET n == New(cfg.LoginService)
       IN  /\ loginService' = n.client
           /\ newErr' = n.err
           /\ IF n.err # ""
              THEN /\ newRBAC' = <<[rbac |-> NilRBAC, err |-> n.err]>>
                   /\ newPc' = "returned"
              ELSE /\ newPc' = "memberWrapper"
                   /\ UNCHANGED newRBAC
    /\ UNCHANGED <<cfg, memberWrapper>>
    /\ UNCHANGED <<mwVars, clVars, paVars, heVars, meVars, rdVars, rtVars, gqVars>>

\* Line 153: memberWrapper, _ := common.New(cfg.MemberWrapper); the error of
\* this call is discarded and err keeps its value.
NewMemberWrapper ==
    /\ newPc = "memberWrapper"
    /\ memberWrapper' = New(cfg.MemberWrapper).client
    /\ newPc' = "return"
    /\ UNCHANGED <<cfg, loginService, newErr, newRBAC>>
    /\ UNCHANGED <<mwVars, clVars, paVars, heVars, meVars, rdVars, rtVars, gqVars>>

\* Lines 154-157: if err != nil return nil, err; otherwise the RBAC of the
\* two locals.
ReturnRBAC ==
    /\ newPc = "return"
    /\ newRBAC' = IF newErr # ""
                  THEN <<[rbac |-> NilRBAC, err |-> newErr]>>
                  ELSE <<[rbac |-> [nil |-> FALSE, loginService |-> loginService,
                                    memberWrapper |-> memberWrapper],
                          err |-> ""]>>
    /\ newPc' = "returned"
    /\ UNCHANGED <<cfg, loginService, memberWrapper, newErr>>
    /\ UNCHANGED <<mwVars, clVars, paVars, heVars, meVars, rdVars, rtVars, gqVars>>

NewRBACNext == NewLoginService \/ NewMemberWrapper \/ ReturnRBAC

NewRBACSpec == NewRBACInit /\ [][NewRBACNext]_vars

\* ------------------------------------------------------------ router Ready
\* Longest dependency list followed.
MaxDeps == 3

\* A dependency: a nil entry, a checker whose Ready() is true, one whose
\* Ready() is false.
Dependencies == {"nil", "up", "down"}
DepReady(dep) == dep = "up"

\* Respond(w, code, body).
Respond(c, body) == [status |-> c, body |-> body]

RouterReadyInit ==
    /\ dependencies \in SeqsUpTo(Dependencies, MaxDeps)
    /\ routerPc = "start"
    /\ depIndex = 0
    /\ readyWg = 0
    /\ checksChan = <<>>
    /\ checksClosed = FALSE
    /\ workers = [i \in 1..Len(dependencies) |-> "none"]
    /\ routerWritten = <<>>
    /\ MiddlewareIdle
    /\ ClientIdle
    /\ ParserIdle
    /\ MergeIdle
    /\ MetricsIdle
    /\ ReadyIdle
    /\ NewRBACIdle
    /\ GraphQLIdle

\* Lines 273-280: no dependency is answered 200 "OK" at once; otherwise the
\* WaitGroup and the channel of capacity numDeps are made.
RouterStart ==
    /\ routerPc = "start"
    /\ IF Len(dependencies) = 0
       THEN /\ routerWritten' = Append(routerWritten, Respond(StatusOK, "OK"))
            /\ routerPc' = "returned"
            /\ UNCHANGED depIndex
       ELSE /\ routerPc' = "range"
            /\ depIndex' = 1
            /\ UNCHANGED routerWritten
    /\ UNCHANGED <<dependencies, readyWg, checksChan, checksClosed, workers>>
    /\ UNCHANGED <<mwVars, clVars, paVars, heVars, meVars, rdVars, nrVars, gqVars>>

\* Lines 281-289: wg.Add(1) for every entry; a goroutine for the entries
\* that are not nil.
RouterSpawn ==
    /\ routerPc = "range"
    /\ readyWg' = readyWg + 1
    /\ workers' = IF dependencies[depIndex] # "nil"
                  THEN [workers EXCEPT ![depIndex] = "Ready"]
                  ELSE workers
    /\ IF depIndex < Len(dependencies)
       THEN depIndex' = depIndex + 1 /\ UNCHANGED routerPc
       ELSE routerPc' = "Wait" /\ UNCHANGED depIndex
    /\ UNCHANGED <<dependencies, checksChan, checksClosed, routerWritten>>
    /\ UNCHANGED <<mwVars, clVars, paVars, heVars, meVars, rdVars, nrVars, gqVars>>

\* Line 285: checks <- d.Ready(); the channel has room for numDeps values.
WorkerReady(i) ==
    /\ workers[i] = "Ready"
    /\ Len(checksChan) < Len(dependencies)
    /\ checksChan' = Append(checksChan, DepReady(dependencies[i]))
    /\ workers' = [workers EXCEPT ![i] = "Done"]
    /\ UNCHANGED <<dependencies, routerPc, depIndex, readyWg, checksClosed, routerWritten>>
    /\ UNCHANGED <<mwVars, clVars, paVars, heVars, meVars, rdVars, nrVars, gqVars>>

\* Line 286: wg.Done().
WorkerDone(i) ==
    /\ workers[i] = "Done"
    /\ readyWg' = readyWg - 1
    /\ workers' = [workers EXCEPT ![i] = "returned"]
    /\ UNCHANGED <<dependencies, routerPc, depIndex, checksChan, checksClosed, routerWritten>>
    /\ UNCHANGED <<mwVars, clVars, paVars, heVars, meVars, rdVars, nrVars, gqVars>>

\* Lines 290-291: wg.Wait() returns when the counter is zero; close(checks).
RouterWait ==
    /\ routerPc = "Wait"
    /\ readyWg = 0
    /\ checksClosed' = TRUE
    /\ routerPc' = "checks"
    /\ UNCHANGED <<dependencies, depIndex, readyWg, checksChan, workers, routerWritten>>
    /\ UNCHANGED <<mwVars, clVars, paVars, heVars, meVars, rdVars, nrVars, gqVars>>

\* Lines 292-299: the range over the closed channel; the first false is
\* answered 503, the end of the channel 200 "OK".
RouterRespond ==
    /\ routerPc = "checks"
    /\ routerWritten' =
          Append(routerWritten,
                 IF \E k \in 1..Len(checksChan) : ~checksChan[k]
                 THEN Respond(StatusServiceUnavailable, "")
                 ELSE Respond(StatusOK, "OK"))
    /\ routerPc' = "returned"
    /\ UNCHANGED <<dependencies, depIndex, readyWg, checksChan, checksClosed, workers>>
    /\ UNCHANGED <<mwVars, clVars, paVars, heVars, meVars, rdVars, nrVars, gqVars>>

RouterReadyNext ==
    \/ RouterStart
    \/ RouterSpawn
    \/ \E i \in DOMAIN workers : WorkerReady(i) \/ WorkerDone(i)
    \/ RouterWait
    \/ RouterRespond

RouterReadySpec == RouterReadyInit /\ [][RouterReadyNext]_vars

\* ------------------------------------------------------------- GraphQL.Run
\* Most runs one caller makes.
MaxRuns == 3

\* The gauge series incremented on entry (line 808) and the one decremented
\* by the deferred call of line 809.
RunEntryLabel == "graphql"
RunExitLabel == ToLower("POST")

GraphQLInit ==
    /\ runners = [c \in Callers |-> [pc |-> "Run", runs |-> 0]]
    /\ runInFlight = [l \in RunLabels |-> 0]
    /\ runError = 0
    /\ runDuration = 0
    /\ MiddlewareIdle
    /\ ClientIdle
    /\ ParserIdle
    /\ MergeIdle
    /\ MetricsIdle
    /\ ReadyIdle
    /\ NewRBACIdle
    /\ RouterReadyIdle

\* Lines 807-810: the gauge goes up and the two deferred calls are set.
RunBegin(c) ==
    /\ runners[c].pc = "Run"
    /\ runners[c].runs < MaxRuns
    /\ runInFlight' = Inc(runInFlight, RunEntryLabel)
    /\ runners' = [runners EXCEPT ![c].pc = "client.Run"]
    /\ UNCHANGED <<runError, runDuration>>
    /\ UNCHANGED <<mwVars, clVars, paVars, heVars, meVars, rdVars, nrVars, rtVars>>

\* Lines 819-824 and the deferred calls: c.client.Run returns, with an
\* error or without; the duration is observed and the gauge goes down.
RunEnd(c) ==
    /\ runners[c].pc = "client.Run"
    /\ \E failure \in BOOLEAN :
          runError' = IF failure THEN runError + 1 ELSE runError
    /\ runDuration' = runDuration + 1
    /\ runInFlight' = Dec(runInFlight, RunExitLabel)
    /\ runners' = [runners EXCEPT ![c].pc = "Run", ![c].runs = @ + 1]
    /\ UNCHANGED <<mwVars, clVars, paVars, heVars, meVars, rdVars, nrVars, rtVars>>

GraphQLNext == \E c \in Callers : RunBegin(c) \/ RunEnd(c)

GraphQLSpec == GraphQLInit /\ [][GraphQLNext]_vars

\* ================================================================ properties
\* Vocabulary of the properties, stated on the inputs and on what the
\* handler makes observable (responses, outbound calls, next, context).
NoOutboundCall == \A e \in Endpoints : calls[e] = <<>>
NoEnrichmentCall == calls[BusinessLine] = <<>> /\ calls[BusinessUnit] = <<>>
NextNotInvoked == nextCalls = 0 /\ ctx = <<>>

Rejected401(detail) ==
    written = << [status |-> 401, message |-> "The request is not authorized",
                  error |-> detail] >>
RejectedWith(status, detail) ==
    written = << [status |-> status, message |-> "", error |-> detail] >>

\* The scheme of a header value: what precedes its first space; a value
\* without a space has no scheme.
HasSpace(h) == \E i \in 1..Len(h) : h[i] = Space
FirstSpace(h) == CHOOSE i \in 1..Len(h) : h[i] = Space /\ \A j \in 1..(i - 1) : h[j] # Space
SchemeOf(h) == IF HasSpace(h) THEN SubSeq(h, 1, FirstSpace(h) - 1) ELSE <<>>

\* C1: a request without an Authorization header (absent or empty) is
\* answered 401 with error detail "no token" and ends there: no outbound
\* call is issued, next is not invoked, no User is attached.
C1_NoTokenRejected ==
    header = <<>> =>
        /\ pc \in {"getAuthentication", "returned"}
        /\ NoOutboundCall
        /\ NextNotInvoked
        /\ pc = "returned" => Rejected401("no token")

C1_Witness == header = <<>> /\ pc = "returned" /\ Len(written) = 1

\* C2: a request whose Authorization header is not empty and whose scheme is
\* not exactly "Bearer" (a single token has no scheme) is answered 401 with
\* error detail "unsupported authentication" before any outbound call, and
\* next is not invoked.
C2_UnsupportedSchemeRejected ==
    (header # <<>> /\ SchemeOf(header) # <<"Bearer">>) =>
        /\ pc \in {"getAuthentication", "returned"}
        /\ NoOutboundCall
        /\ NextNotInvoked
        /\ pc = "returned" => Rejected401("unsupported authentication")

C2_Witness ==
    /\ header = <<"Basic", Space, "Bearer">>
    /\ pc = "returned"
    /\ Len(written) = 1

\* The status code token exchange returned: that of the login answer, 0 when
\* the call failed in the transport.
ExchangeReturned == lsOut # <<>>
ExchangeCode == IF lsOut[1].failed THEN 0 ELSE lsOut[1].StatusCode

\* C3: once token exchange has returned and the handler has acted on it, the
\* returned status code alone decides: after 200 the handler is in the
\* fan-out (and has issued both enrichment calls when it returns); after 401
\* it has returned with one 401 response; after any other code, 0 included,
\* it has returned with one 502 response; in the last two cases no enrichment
\* call was issued and next was not invoked.
C3_ExchangeCodeDecides ==
    (ExchangeReturned /\ pc # "switch") =>
        IF ExchangeCode = 200
        THEN /\ pc = "returned" => Len(calls[BusinessLine]) = 1 /\ Len(calls[BusinessUnit]) = 1
             /\ pc # "returned" => written = <<>>
        ELSE /\ pc = "returned"
             /\ Len(written) = 1
             /\ written[1].status = (IF ExchangeCode = 401 THEN 401 ELSE 502)
             /\ NoEnrichmentCall
             /\ NextNotInvoked

C3_Witness ==
    /\ ExchangeReturned
    /\ ~lsOut[1].failed
    /\ lsOut[1].StatusCode = 599
    /\ pc = "returned"
    /\ Len(written) = 1
    /\ written[1].status = 502

\* C4: when the login service answers 401 with the JSON body {"error": m},
\* the rejection is 401 with error detail m, and no reference-data endpoint
\* is called.
C4_LoginRejectionMessage ==
    (ExchangeReturned /\ ~lsOut[1].failed /\ lsOut[1].StatusCode = 401
       /\ lsOut[1].Body.valid /\ pc # "switch") =>
        /\ pc = "returned"
        /\ Rejected401(lsOut[1].Body.error)
        /\ NoEnrichmentCall

C4_Witness ==
    /\ lsOut = <<Answer(401, ErrorBody("bad token"))>>
    /\ pc = "returned"
    /\ Rejected401("bad token")

\* What the two reference endpoints answered, read from the locals in which
\* each branch keeps it: resp.StatusCode is copied to errResponse.Code, the
\* decoded rows are response.RefData.
Answered200(b) == b.errResponse.Code = 200 /\ b.errResponse.Message # JsonErr
FanOutOver == pc = "returned" /\ col.pc = "returned"

\* The integer a reference code denotes, for the codes of RefItems that
\* denote one.
NumericCodes == {<<"1">>, <<"4", "2">>}
CodeValue(c) == IF c = <<"1">> THEN 1 ELSE 42

\* C5: when token exchange returned 200 with a decodable body and both
\* reference endpoints answered 200 with decodable rows, every business-unit
\* code being numeric, then in every interleaving the handler ends by
\* attaching a User whose BusinessLines are the names of the business-line
\* rows and whose BusinessUnits are the integers of the business-unit codes,
\* both in response order; next is invoked exactly once and nothing is
\* written by the middleware.
C5_EnrichedUserAttached ==
    (/\ FanOutOver
     /\ ExchangeCode = 200 /\ lsOut[1].Body.valid
     /\ Answered200(bl) /\ Answered200(bu)
     /\ \A i \in 1..Len(bu.RefData) : bu.RefData[i].code \in NumericCodes) =>
        /\ Len(ctx) = 1
        /\ ctx[1].BusinessLines = [i \in 1..Len(bl.RefData) |-> bl.RefData[i].name]
        /\ ctx[1].BusinessUnits = [i \in 1..Len(bu.RefData) |-> CodeValue(bu.RefData[i].code)]
        /\ nextCalls = 1
        /\ written = <<>>

C5_Witness ==
    /\ FanOutOver
    /\ nextCalls = 1
    /\ Len(ctx) = 1
    /\ ctx[1].BusinessLines = <<"West", "East">>
    /\ ctx[1].BusinessUnits = <<42, 1>>

\* C6: before the decision next is not invoked and no User is attached; after
\* the fan-out the User is attached and next invoked (once) exactly when no
\* branch emitted an error; with an error emitted the handler writes one
\* rejection, attaches nothing and does not invoke next.
C6_AttachIffNoError ==
    /\ pc # "returned" => NextNotInvoked
    /\ FanOutOver =>
          IF emitted = <<>>
          THEN ctx = <<user>> /\ nextCalls = 1 /\ written = <<>>
          ELSE NextNotInvoked /\ Len(written) = 1

C6_Witness == FanOutOver /\ Len(emitted) = 1 /\ NextNotInvoked /\ Len(written) = 1

\* C7: with one or more errors collected, the rejection is determined by the
\* first collected error alone: code in [500,600) gives 502, another nonzero
\* code gives 401, code 0 gives 500, each with that error's message as detail.
C7_FirstErrorDecides ==
    (FanOutOver /\ errs # <<>>) =>
        LET first == errs[1]
        IN  IF 500 <= first.Code /\ first.Code < 600 THEN RejectedWith(502, first.Message)
            ELSE IF first.Code # 0 THEN Rejected401(first.Message)
            ELSE RejectedWith(500, first.Message)

C7_Witness ==
    /\ FanOutOver
    /\ Len(errs) = 2
    /\ errs[1].Code = 0
    /\ errs[2].Code = 599
    /\ RejectedWith(500, errs[1].Message)

\* C8: when the business-unit endpoint answers 200 with a row whose code is
\* not numeric, the request is rejected with 500, whatever the business-line
\* branch did and in whatever order the branches finished.
C8_NonNumericCodeRejected500 ==
    (/\ FanOutOver
     /\ Answered200(bu)
     /\ \E i \in 1..Len(bu.RefData) : bu.RefData[i].code \notin NumericCodes) =>
        Len(written) = 1 /\ written[1].status = 500

\* C9: the handler is past wg.Wait only when both branches have run their
\* deferred wg.Done, and no step taken past the wait changes a branch, the
\* User, the calls issued, or the errors emitted.
PastWait == pc \in {"done<-", "decide"} \/ (pc = "returned" /\ col.pc # "idle")
C9_JoinBeforeRead ==
    /\ [](PastWait => bl.pc = "returned" /\ bu.pc = "returned" /\ wg = 0)
    /\ [][PastWait => (bl' = bl /\ bu' = bu /\ user' = user /\ calls' = calls
                        /\ emitted' = emitted)]_vars

C9_Witness ==
    /\ pc = "decide"
    /\ bl.pc = "returned" /\ bu.pc = "returned"
    /\ user.BusinessLines # <<>>
    /\ Len(emitted) = 1

\* C10: when the handler inspects errs, the collector has returned and errs
\* holds the errors emitted by the branches, each once, in emission order.
C10_ErrorsCompleteInOrder ==
    (pc = "decide" \/ FanOutOver) => (col.pc = "returned" /\ errs = emitted)

C10_Witness ==
    /\ pc = "decide"
    /\ Len(emitted) = 2
    /\ emitted[1] # emitted[2]
    /\ errs = emitted

\* The phases of a request: Unauthenticated 0, Authenticated (exchange
\* pending) 1, Exchanged 2, Enriching 3, terminal 4.
Phase ==
    CASE pc = "getAuthentication" -> 0
      [] pc = "getUser" -> 1
      [] pc = "switch" -> 2
      [] pc = "returned" -> 4
      [] OTHER -> 3

Authorized == nextCalls = 1 /\ written = <<>>
Rejected(status) == nextCalls = 0 /\ Len(written) = 1 /\ written[1].status = status
Terminal == Authorized \/ Rejected(401) \/ Rejected(502) \/ Rejected(500)

\* C11: with every outbound call returning and every goroutine scheduled, a
\* request eventually returns; when it has returned exactly one of Authorized,
\* Rejected(401), Rejected(502), Rejected(500) has been produced and before
\* that none; the phases are passed in the order Unauthenticated,
\* Authenticated, Exchanged, Enriching, terminal (a step stays, moves to the
\* next phase or ends the request); after the return no response is written
\* and the next handler is not invoked.
C11_RequestStateMachine ==
    /\ <>(pc = "returned")
    /\ [](IF pc = "returned" THEN Terminal ELSE nextCalls = 0 /\ written = <<>>)
    /\ [][Phase' \in {Phase, Phase + 1, 4}]_vars
    /\ [][pc = "returned" => (pc' = "returned" /\ written' = written
                              /\ nextCalls' = nextCalls /\ ctx' = ctx)]_vars

C11_Witness ==
    /\ pc = "returned"
    /\ Rejected(502)
    /\ col.pc = "returned"
    /\ Len(emitted) = 2

\* An attempt's result that is a response with status in [500,600), and one
\* that is a response with another status.
ServerErrorResponse(r) == ~r.nil /\ r.StatusCode >= 500 /\ r.StatusCode < 600
OtherResponse(r) == ~r.nil /\ ~(r.StatusCode >= 500 /\ r.StatusCode < 600)
CallReturned == doPc = "returned"

\* C12: with maxRetry = N > 0, when the first k attempts (k <= N) each
\* returned a 5xx response and attempt k+1 returned a non-5xx response, the
\* call has returned exactly that response with nil error after exactly k+1
\* attempts, and no further attempt is begun.
C12_ReturnsFirstNon5xx ==
    \A k \in 0..MaxRetry :
        (/\ maxRetry > 0 /\ k <= maxRetry
         /\ Len(attempts) >= k + 1
         /\ \A i \in 1..k : ServerErrorResponse(attempts[i])
         /\ OtherResponse(attempts[k + 1])) =>
            /\ CallReturned
            /\ Begun = k + 1
            /\ result = attempts[k + 1]
            /\ result.err = ""

C12_Witness ==
    /\ maxRetry = 2
    /\ attempts = <<HandleOk(500), HandleOk(500), HandleOk(200)>>
    /\ CallReturned
    /\ result = HandleOk(200)

\* An attempt's result the retry policy allows to retry: an error that is
\* neither cancellation nor deadline expiry, or a 5xx response.
Retryable(r) ==
    \/ r.nil /\ r.err \notin {"context canceled", "context deadline exceeded"}
    \/ ServerErrorResponse(r)

\* C13: an attempt is followed by another attempt only when it returned a
\* transport error that is neither cancellation nor deadline expiry, or a
\* response with status in [500,600).
C13_RetryOnlyWhenRetryable ==
    \A i \in 1..Len(attempts) : Begun > i => Retryable(attempts[i])

\* The caller's context was canceled when n attempts had been begun and all
\* of them had returned.
CanceledAfter(n) == cancelAt = <<[begun |-> n, done |-> n]>>

\* C14: with maxRetry = 2 and a first attempt answered 500, a call whose
\* context is canceled after the first attempt has returned and before a
\* second one is begun makes no second attempt.
C14_CancelAfterFirstAttemptStops ==
    (/\ maxRetry = 2
     /\ entry = "DoWithContext"
     /\ Len(attempts) >= 1 /\ attempts[1] = HandleOk(500)
     /\ CanceledAfter(1)) =>
        Begun = 1

\* C15: when the inbound request is canceled while a call of the middleware
\* is in flight, the call stops: no attempt is begun after the cancellation.
C15_InboundCancelStopsCall ==
    (/\ entry = MiddlewareEntry
     /\ cancelAt # <<>>
     /\ cancelAt[1].begun > cancelAt[1].done) =>
        Begun = cancelAt[1].begun

\* C16: with maxRetry = 0 the call makes exactly one attempt and returns its
\* outcome, be it a 5xx response, another response or a transport error.
C16_NoRetryWhenMaxRetryZero ==
    maxRetry = 0 =>
        /\ Begun <= 1
        /\ Len(attempts) = 1 <=> CallReturned
        /\ CallReturned => result = attempts[1]

C16_Witness ==
    /\ maxRetry = 0
    /\ CallReturned
    /\ attempts = <<HandleOk(599)>>
    /\ result = HandleOk(599)

\* C17: for one request the middleware invokes the client at most once for
\* POST /token, at most once for GET /v2/umvrefdata/businessline and at most
\* once for GET /v2/umvrefdata/businessunit, whatever the calls return.
C17_AtMostOneCallPerEndpoint ==
    \A e \in Endpoints : Len(calls[e]) <= 1

C17_Witness ==
    /\ FanOutOver
    /\ \A e \in Endpoints : Len(calls[e]) = 1
    /\ Len(errs) = 2
    /\ \A i \in 1..2 : errs[i] = [Code |-> 0, Message |-> "connection refused"]

\* The handler is in the enrichment fan-out or past it.
InFanOut ==
    pc \in {"getBusinessLines", "getBusinessUnits", "collect", "Wait", "done<-", "decide"}

\* C18: the User token exchange produced is the zero value whenever the
\* exchange returned an error, and otherwise carries the request's
\* Authentication and no business lines or units; every User in the
\* enrichment fan-out or attached to the request scope has its
\* authentication equal to the Authentication parsed from the header.
C18_UserInvariant ==
    /\ pc = "switch" =>
          IF code = 200 /\ err = ""
          THEN /\ user.Authentication = authentication
               /\ user.Info = lsOut[1].Body.userInfo
               /\ user.Roles = lsOut[1].Body.chpRoles
               /\ user.ExpTime = lsOut[1].Body.expTime
               /\ user.BusinessLines = <<>> /\ user.BusinessUnits = <<>>
          ELSE user = ZeroUser
    /\ InFanOut => user.Authentication = authentication
    /\ ctx # <<>> => ctx[1].Authentication = authentication

\* C19: when a reference endpoint answers 200 with a body that is not a
\* reference-data envelope and that branch's error is the one that decides,
\* the request is rejected 500, as for a transport failure of the branch.
C19_DecodeFailureRejected500 ==
    (/\ FanOutOver
     /\ errs # <<>>
     /\ errs[1].Message = JsonErr
     /\ errs[1].Code = 200) =>
        Rejected(500)

\* The spaces of a header value, and its first and second token when it has
\* two spaces or more.
Spaces(h) == {i \in 1..Len(h) : h[i] = Space}
SecondSpace(h) == CHOOSE i \in Spaces(h) \ {FirstSpace(h)} :
                      \A j \in Spaces(h) \ {FirstSpace(h)} : i <= j
FirstToken(h) == SubSeq(h, 1, FirstSpace(h) - 1)
SecondToken(h) == SubSeq(h, FirstSpace(h) + 1, SecondSpace(h) - 1)
Parsed == parseEntry = "NewAuthentication" /\ parsePc # "parse"

\* C20 as stated: NewAuthentication applied to a header value with more than
\* one space yields the first token as scheme and the second as credential.
C20_TruncatedToTwoTokens ==
    (Parsed /\ Cardinality(Spaces(parseHeader)) > 1) =>
        /\ parsed.Type = FirstToken(parseHeader)
        /\ parsed.Credenteials = SecondToken(parseHeader)

\* C20 amended: NewAuthentication applied to a header value with more than
\* one space yields the zero Authentication, scheme and credential empty.
C20_ManySpacesGiveZero ==
    (Parsed /\ Cardinality(Spaces(parseHeader)) > 1) =>
        parsed = [Type |-> <<>>, Credenteials |-> <<>>]

C20_Witness ==
    /\ Parsed
    /\ parseHeader = <<"Bearer", Space, "Basic", Space, "Bearer">>
    /\ parsed.Type = <<>>
    /\ parsed.Credenteials = <<>>

GetAuthenticationReturned == parseEntry = "getAuthentication" /\ parsePc = "done"

\* C21: getAuthentication on an empty header returns ErrNoToken;
\* NewAuthentication on a header of exactly one token (no space) yields the
\* empty scheme and that token as credential; on a header of exactly two
\* space-separated tokens (one space) it yields the first token as scheme
\* and the second as credential.
C21_ParseByTokenCount ==
    /\ (GetAuthenticationReturned /\ parseHeader = <<>>) =>
          got.err = "no token" /\ got.authentication = [Type |-> <<>>, Credenteials |-> <<>>]
    /\ (Parsed /\ parseHeader # <<>> /\ Spaces(parseHeader) = {}) =>
          parsed = [Type |-> <<>>, Credenteials |-> parseHeader]
    /\ (Parsed /\ Cardinality(Spaces(parseHeader)) = 1) =>
          parsed = [Type |-> SubSeq(parseHeader, 1, FirstSpace(parseHeader) - 1),
                    Credenteials |-> SubSeq(parseHeader, FirstSpace(parseHeader) + 1,
                                            Len(parseHeader))]

C21_Witness ==
    /\ Parsed
    /\ parseHeader = <<"Basic", Space, "Bearer", "Basic">>
    /\ parsed = [Type |-> <<"Basic">>, Credenteials |-> <<"Bearer", "Basic">>]

\* An Authentication has been rendered and the rendered value parsed again.
RoundTripDone == parseEntry \in {"NewAuthentication", "String"} /\ parsePc = "done"
HasNoSpace(t) == \A i \in 1..Len(t) : t[i] # Space

\* C22 as stated: for every Authentication a with non-empty scheme,
\* NewAuthentication(a.String()) = a.
C22_RoundTripAnyAuthentication ==
    (RoundTripDone /\ parsed.Type # <<>>) => reparsed = parsed

\* C22 amended: for every Authentication a with non-empty scheme and no
\* space in its scheme or its credential, NewAuthentication(a.String()) = a.
C22_RoundTripWithoutSpaces ==
    (/\ RoundTripDone
     /\ parsed.Type # <<>>
     /\ HasNoSpace(parsed.Type) /\ HasNoSpace(parsed.Credenteials)) =>
        /\ rendered = parsed.Type \o <<Space>> \o parsed.Credenteials
        /\ reparsed = parsed

C22_Witness ==
    /\ RoundTripDone
    /\ parseEntry = "String"
    /\ parsed = [Type |-> <<"Basic", "Bearer">>, Credenteials |-> <<>>]
    /\ reparsed = parsed

RequestBuilt == mergePc = "do"
KeysOf(h) == {k \in HeaderKeys : h[k] # <<>>}

\* C23: the request carries the union of the client's default headers and
\* the call's headers, and for a key present in both, the values the request
\* carries for that key are the call's.
C23_ExplicitHeadersWin ==
    RequestBuilt =>
        /\ KeysOf(requestHeader) = KeysOf(defaults) \cup KeysOf(callHeaders)
        /\ \A k \in KeysOf(defaults) \cap KeysOf(callHeaders) :
              requestHeader[k] = callHeaders[k]
        /\ \A k \in KeysOf(callHeaders) \ KeysOf(defaults) : requestHeader[k] = callHeaders[k]
        /\ \A k \in KeysOf(defaults) \ KeysOf(callHeaders) : requestHeader[k] = defaults[k]

\* The callers executing Client.handle with a method whose lowered name is l.
Executing(l) ==
    {c \in Callers : callers[c].pc = "inflight"
                       /\ l = (IF Method(c) = "GET" THEN "get" ELSE "post")}

\* C24: in every state the in-flight gauge of a label equals the number of
\* attempts executing under that label, is never negative, and is zero for
\* every label when no attempt is executing, under concurrent calls and
\* retries.
C24_InFlightGauge ==
    \A l \in Labels :
        /\ inFlight[l] = Cardinality(Executing(l))
        /\ inFlight[l] >= 0
        /\ (\A c \in Callers : callers[c].pc # "inflight") => inFlight[l] = 0

C24_Witness ==
    /\ callers[1] = [pc |-> "inflight", retries |-> 1]
    /\ callers[2] = [pc |-> "inflight", retries |-> 0]
    /\ inFlight["get"] = 1 /\ inFlight["post"] = 1
    /\ failed["GET"] = 1

\* C25: the outbound request counter equals the number of attempts made.
C25_RequestCounterCountsAttempts ==
    \A t \in Methods :
        counter[IF t = "GET" THEN "get" ELSE "post"] = begun[t]

\* C26: an attempt that returned a response has incremented the status
\* counter of its method and code and recorded one duration, and left the
\* error counter alone; an attempt that returned an error has incremented
\* the error counter of its method and left the status counter alone.
C26_StatusOrErrorCounter ==
    (\A c \in Callers : callers[c].pc # "inflight") =>
        \A t \in Methods :
            LET l == IF t = "GET" THEN "get" ELSE "post"
            IN  /\ \A c \in MetricCodes : statusCounter[l][c] = completed[t][c]
                /\ duration[l] = completed[t][200] + completed[t][500]
                /\ errorCounter[l] = failed[t]

ProbeAnswered == readyPc = "returned"
LastWritten == readyWritten[Len(readyWritten)]
\* The checks Controller.Ready is to run, in order.
DueChecks ==
    IF loginClient THEN <<"login-service", "Mongo", "Mssql">> ELSE <<"Mongo", "Mssql">>
\* Whether a check passed, read off what the dependency returned.
Passed(ch) ==
    IF ch.name = "login-service" THEN ~ch.out.failed /\ ch.out.StatusCode = 200
    ELSE ch.out = ""

\* C27: /ready answers 200 OK only when every due check was run and passed
\* (the login-service client, when configured, answered 200; both pings
\* succeeded); when a check fails it answers 503 with that check's error
\* and no later check is run.
C27_ReadyOnlyIfAllPass ==
    /\ \A i \in 1..Len(checks) :
          /\ checks[i].name = DueChecks[i]
          /\ ~Passed(checks[i]) => i = Len(checks)
    /\ ProbeAnswered =>
          IF \A i \in 1..Len(checks) : Passed(checks[i])
          THEN /\ Len(checks) = Len(DueChecks)
               /\ LastWritten.status = 200 /\ LastWritten.body = "OK"
          ELSE /\ LastWritten.status = 503
               /\ LastWritten.error = checks[Len(checks)].err
               /\ LastWritten.error # ""

C27_Witness ==
    /\ ProbeAnswered
    /\ loginClient
    /\ Len(readyWritten) = 2
    /\ readyWritten[1].status = 200
    /\ Len(checks) = 1
    /\ checks[1].out.StatusCode = 401
    /\ LastWritten = [status |-> 503, error |-> "chp-api dependency is not available",
                      body |-> ""]

\* The OutcomeError due for an answer that is a transport error or a
\* response other than 200.
NotOK(o) == o.failed \/ o.StatusCode # 200
DueError(o) ==
    IF o.failed THEN [Code |-> 0, Message |-> o.err]
    ELSE [Code |-> o.StatusCode,
          Message |-> IF o.valid THEN o.message ELSE "invalid character"]
Emitted(e) == \E i \in 1..Len(emitted) : emitted[i] = e
\* A branch that got the answer o holds or has emitted the error due for it.
EmitsDue(b, o) ==
    /\ b.pc \in {"send", "Done", "returned"}
    /\ b.pc = "send" => b.errResponse = DueError(o)
    /\ b.pc \in {"Done", "returned"} => Emitted(DueError(o))

\* C28: a branch whose call failed in transport emits an OutcomeError with
\* code 0 and the error text; a branch answered with a status other than
\* 200 emits one with that status as code and the decoded "message" member
\* (the decode failure's text when the body does not decode); in both cases
\* nothing is appended to the User by that branch.
C28_BranchErrorOutcome ==
    /\ (msOut[BusinessLine] # <<>> /\ NotOK(msOut[BusinessLine][1])) =>
          EmitsDue(bl, msOut[BusinessLine][1]) /\ user.BusinessLines = <<>>
    /\ (msOut[BusinessUnit] # <<>> /\ NotOK(msOut[BusinessUnit][1])) =>
          EmitsDue(bu, msOut[BusinessUnit][1]) /\ user.BusinessUnits = <<>>

C28_Witness ==
    /\ FanOutOver
    /\ msOut[BusinessLine] = <<[failed |-> TRUE, err |-> "connection refused",
                                StatusCode |-> 0, valid |-> FALSE, message |-> ""]>>
    /\ msOut[BusinessUnit] = <<[failed |-> FALSE, err |-> "", StatusCode |-> 499,
                                valid |-> TRUE, message |-> "bad token"]>>
    /\ emitted = <<[Code |-> 499, Message |-> "bad token"],
                   [Code |-> 0, Message |-> "connection refused"]>>
    /\ user.BusinessLines = <<>> /\ user.BusinessUnits = <<>>

\* The rows the business-unit branch received, and the first of them whose
\* code is not an integer.
UnitRows == bu.RefData
Failing == {i \in 1..Len(UnitRows) : UnitRows[i].code \notin NumericCodes}
FirstFailing == CHOOSE i \in Failing : \A j \in Failing : i <= j
ParseErrorsEmitted ==
    Cardinality({i \in 1..Len(emitted) : emitted[i].Message = "strconv.Atoi: invalid syntax"})

\* C29: when a row of the business-unit answer has a code that does not
\* parse, the branch appends the rows before the first such row and nothing
\* at or after it, and once it has ended it has emitted exactly one
\* OutcomeError, carrying the parse error.
C29_ParseFailureAborts ==
    Failing # {} =>
        /\ Len(user.BusinessUnits) <= FirstFailing - 1
        /\ \A i \in 1..Len(user.BusinessUnits) :
              user.BusinessUnits[i] = CodeValue(UnitRows[i].code)
        /\ bu.pc \in {"Done", "returned"} =>
              /\ Len(user.BusinessUnits) = FirstFailing - 1
              /\ ParseErrorsEmitted = 1
        /\ bu.pc \in {"range", "send"} => ParseErrorsEmitted = 0

C29_Witness ==
    /\ bu.pc = "returned"
    /\ Len(UnitRows) = 2
    /\ Failing = {2}
    /\ user.BusinessUnits = <<42>>
    /\ ParseErrorsEmitted = 1

\* The status the handler answers for an error of this class.
StatusFor(e) ==
    IF e.Code >= 500 /\ e.Code < 600 THEN 502
    ELSE IF e.Code # 0 THEN 401
    ELSE 500
\* Both branches hold an error to emit, none is emitted yet and the collector
\* is receiving.
BothPending ==
    /\ bl.pc = "send" /\ bu.pc = "send"
    /\ emitted = <<>>
    /\ col.pc = "select"

\* C30: when both branches emit an error, the rejection is the one for the
\* error emitted first, whatever the other error is; and when both hold an
\* error to emit, either may be emitted first, so that with a business-line
\* 5xx and a business-unit transport failure the request can end as 502 or
\* as 500.
C30_ArrivalOrderDecides ==
    /\ (FanOutOver /\ Len(emitted) = 2) =>
          /\ Len(written) = 1
          /\ written[1].status = StatusFor(emitted[1])
          /\ written[1].error = emitted[1].Message
    /\ BothPending => (ENABLED BusinessLinesSend /\ ENABLED BusinessUnitsSend)

C30_Witness ==
    /\ FanOutOver
    /\ msOut[BusinessLine][1].StatusCode = 599
    /\ msOut[BusinessUnit][1].failed
    /\ emitted = <<bu.errResponse, bl.errResponse>>
    /\ written[1].status = 500

\* The other order of C30_Witness: the same answers, the business-line error
\* emitted first.
C30_OtherOrder ==
    /\ FanOutOver
    /\ msOut[BusinessLine][1].StatusCode = 599
    /\ msOut[BusinessUnit][1].failed
    /\ emitted = <<bl.errResponse, bu.errResponse>>
    /\ written[1].status = 502

\* C31: one call to Client.do makes at most maxRetry retries, hence at most
\* maxRetry + 1 attempts, whatever the attempts return; the call returns,
\* and what it returns is the outcome of the last attempt made.
C31_BoundedRetry ==
    /\ [](/\ retries <= maxRetry
          /\ Begun <= maxRetry + 1
          /\ Begun <= retries + 1
          /\ CallReturned => (/\ Len(attempts) = Begun
                              /\ result = attempts[Len(attempts)]))
    /\ <>CallReturned

C31_Witness ==
    /\ maxRetry = MaxRetry
    /\ CallReturned
    /\ Len(attempts) = MaxRetry + 1
    /\ retries = MaxRetry
    /\ \A i \in 1..Len(attempts) : attempts[i] = HandleErr("connection refused")
    /\ result = HandleErr("connection refused")

\* C32: Client.do returns a non-nil Response if and only if it returns a nil
\* error, whatever the attempts returned: in particular after a 5xx first
\* attempt followed by failed retries, and after a canceled first attempt.
C32_ResponseIffNoError ==
    CallReturned => (~result.nil <=> result.err = "")

C32_Witness ==
    /\ CallReturned
    /\ maxRetry = MaxRetry
    /\ Len(attempts) = MaxRetry + 1
    /\ attempts[1] = HandleOk(500)
    /\ \A i \in 2..Len(attempts) : attempts[i] = HandleErr("connection refused")
    /\ result.nil
    /\ result.err = "connection refused"

\* A goroutine that was never started or has run to its end.
Ended(g) == g.pc \in {"idle", "returned"}
\* The handler is past make(chan ...) and the two defers (lines 171-175).
ChannelsMade == pc \notin {"getAuthentication", "getUser"} /\ lsOut # <<>>

\* C33: the channel protocol neither deadlocks nor touches a closed
\* channel.  Until the handler has returned some goroutine can take a step;
\* a branch waiting to send finds errChan open and the collector not yet
\* returned; when the handler has returned, both branches and the collector
\* have ended, every value sent was received and appended, and done and
\* errChan are closed, both and only then, on every return path after their
\* creation; once closed they stay closed and nothing is sent or received.
C33_ChannelProtocol ==
    /\ pc # "returned" => ENABLED Next
    /\ \A g \in {bl, bu} : g.pc = "send" => (closed = {} /\ col.pc # "returned")
    /\ col.pc \in {"select", "append"} => closed = {}
    /\ pc \in {"decide", "returned"} =>
          /\ Ended(bl) /\ Ended(bu) /\ Ended(col)
          /\ errs = emitted
    /\ closed # {} => (closed = {"done", "errChan"} /\ pc = "returned")
    /\ (pc = "returned" /\ ChannelsMade) => closed = {"done", "errChan"}
    /\ (pc = "returned" /\ ~ChannelsMade) => (closed = {} /\ col.pc = "idle")
    /\ pc = "returned" => ~ENABLED Next

C33_Witness ==
    /\ pc = "returned"
    /\ closed = {"done", "errChan"}
    /\ Len(emitted) = 2
    /\ errs = emitted
    /\ bl.pc = "returned" /\ bu.pc = "returned" /\ col.pc = "returned"

\* A step of the business-line goroutine, of the business-unit goroutine.
BusinessLinesStep == bl' # bl /\ bl.pc # "idle"
BusinessUnitsStep == bu' # bu /\ bu.pc # "idle"
\* The fields of User other than the two the branches fill.
Core(u) == <<u.Authentication, u.Info, u.Roles, u.ExpTime>>

\* C34: a step of the business-line branch changes nothing of the shared
\* User but BusinessLines, and only by appending a name of its own answer; a
\* step of the business-unit branch changes nothing but BusinessUnits, and
\* only by appending a number parsed from its own answer; neither changes
\* Authentication, Info, Roles or ExpTime, and no other goroutine writes the
\* User while a branch runs.
C34_BranchesWriteDisjointFields ==
    [][/\ BusinessLinesStep =>
             /\ Core(user') = Core(user)
             /\ user'.BusinessUnits = user.BusinessUnits
             /\ \/ user'.BusinessLines = user.BusinessLines
                \/ /\ bl.pc = "range"
                   /\ user'.BusinessLines =
                         Append(user.BusinessLines, bl.RefData[bl.i].name)
       /\ BusinessUnitsStep =>
             /\ Core(user') = Core(user)
             /\ user'.BusinessLines = user.BusinessLines
             /\ \/ user'.BusinessUnits = user.BusinessUnits
                \/ /\ bu.pc = "range"
                   /\ user'.BusinessUnits =
                         Append(user.BusinessUnits, Atoi(bu.RefData[bu.i].code).val)
       /\ (user' # user /\ pc # "getUser") => (BusinessLinesStep \/ BusinessUnitsStep)
      ]_vars

C34_Witness ==
    /\ InFanOut
    /\ bl.pc = "range" /\ bu.pc = "range"
    /\ user.BusinessLines # <<>>
    /\ user.BusinessUnits # <<>>
    /\ Core(user) = <<authentication, <<"jdoe">>, <<"admin">>, 99>>

\* The branch of endpoint e, in state b, did not complete successfully: its
\* call failed, was answered with a status other than 200 or with a body
\* that does not decode, or a row of it does not parse.
Unsuccessful(e, b) ==
    /\ msOut[e] # <<>>
    /\ \/ msOut[e][1].failed
       \/ msOut[e][1].StatusCode # 200
       \/ ~msOut[e][1].valid
       \/ e = BusinessUnit /\ \E i \in 1..Len(b.RefData) : ~Atoi(b.RefData[i].code).ok
\* The branch is past its last send.
PastSend(b) == b.pc \in {"Done", "returned"}
\* This step completes a send of branch b (b2 is b after the step).
Sends(b, b2) == b.pc = "send" /\ b2.pc = "Done" /\ emitted' = Append(emitted, b.errResponse)

\* C35: each branch emits at most one OutcomeError, and one exactly when it
\* did not complete successfully.  A branch comes to a send only when
\* unsuccessful, a completed send is the branch's last, every growth of the
\* emitted sequence is one send of one branch, and the number emitted is
\* the number of unsuccessful branches past their send; so the collected
\* list has at most two entries.
C35_OneErrorPerBranch ==
    /\ [](/\ bl.pc = "send" => Unsuccessful(BusinessLine, bl)
          /\ bu.pc = "send" => Unsuccessful(BusinessUnit, bu)
          /\ Len(emitted) =
                (IF PastSend(bl) /\ Unsuccessful(BusinessLine, bl) THEN 1 ELSE 0)
                  + (IF PastSend(bu) /\ Unsuccessful(BusinessUnit, bu) THEN 1 ELSE 0)
          /\ Len(errs) <= Len(emitted)
          /\ Len(emitted) <= 2)
    /\ [][/\ emitted' # emitted => (Sends(bl, bl') /\ bu' = bu) \/ (Sends(bu, bu') /\ bl' = bl)
          /\ PastSend(bl) => PastSend(bl')
          /\ PastSend(bu) => PastSend(bu')
         ]_vars

C35_Witness ==
    /\ FanOutOver
    /\ msOut[BusinessLine][1].StatusCode = 200 /\ msOut[BusinessLine][1].valid
    /\ ~Unsuccessful(BusinessLine, bl)
    /\ msOut[BusinessUnit][1].StatusCode = 401 /\ ~msOut[BusinessUnit][1].valid
    /\ emitted = <<[Code |-> 401, Message |-> "invalid character"]>>
    /\ errs = emitted

\* C36: NewRBAC returns a non-nil error and no RBAC whenever common.New
\* fails for the login-service or for the member-wrapper configuration, and
\* an RBAC it returns has both clients non-nil.
C36_ConstructionFailureIsError ==
    newPc = "returned" =>
        /\ (New(cfg.LoginService).err # "" \/ New(cfg.MemberWrapper).err # "") =>
              (newRBAC[1].err # "" /\ newRBAC[1].rbac.nil)
        /\ ~newRBAC[1].rbac.nil =>
              (~newRBAC[1].rbac.loginService.nil /\ ~newRBAC[1].rbac.memberWrapper.nil)

\* The dependencies the handler checks: the entries that are not nil.
Checked == {i \in 1..Len(dependencies) : dependencies[i] # "nil"}

\* C37: for every list of dependencies, nil entries included, the router's
\* Ready handler ends with one response: until it has returned, the handler
\* or one of its goroutines can take a step (it never waits on its
\* WaitGroup or its channel with nothing left to run), and at its return
\* it has answered 503 if a checked dependency reported false and 200 "OK"
\* otherwise.
C37_RouterReadyTerminates ==
    /\ (routerPc \notin {"idle", "returned"}) => ENABLED RouterReadyNext
    /\ routerPc = "returned" =>
          routerWritten =
            <<IF \E i \in Checked : ~DepReady(dependencies[i])
              THEN Respond(503, "")
              ELSE Respond(200, "OK")>>

\* C38: Client.Do and Client.DoWithContext leave the caller's headers map
\* as it was: after any number of calls with the same headers value the
\* map holds the keys and values it held before the first call, and every
\* call has sent the same header set.
C38_CallerHeadersUnchanged ==
    /\ callerHeaders = callHeaders
    /\ \A i \in 1..Len(sentHeaders) : sentHeaders[i] = sentHeaders[1]

\* No call of GraphQL.Run is under way.
NoRunUnderWay == \A c \in Callers : runners[c].pc = "Run"

\* C39: GraphQL.Run keeps the in-flight gauge balanced: no series of the
\* gauge is ever negative, and whenever every call begun has completed each
\* series is back at zero.
C39_RunGaugeBalanced ==
    /\ \A l \in RunLabels : runInFlight[l] >= 0
    /\ NoRunUnderWay => \A l \in RunLabels : runInFlight[l] = 0

====
